---------------------------- MODULE Spec2Model ----------------------------
(***************************************************************************)
(* Model of the opportunity-analysis engine of gsc-opps (src/analyzer.py)  *)
(* over the rows db.get_aggregated_data returns (src/database.py).         *)
(*                                                                         *)
(* Numbers.  Counts (clicks, impressions, limits) are plain integers.      *)
(* Every real number (a position, a threshold, an expected CTR, a value    *)
(* rounded to 1 or 2 decimals) is the integer 100 * value, "hundredths":   *)
(* position 4.25 is 425, the CTR 0.24 is 24, the percentage 19.0 is 1900.  *)
(* A row's avg_ctr is the quotient total_clicks / total_impressions the    *)
(* SQL computes, kept as the pair <<numerator, denominator>>.              *)
(* Python's round() is round-half-to-even on the binary value; the inputs  *)
(* enumerated below are values on which that is the decimal half-to-even   *)
(* result (exact binary ties such as x.25, or no tie at all).              *)
(***************************************************************************)
EXTENDS Integers, Sequences, FiniteSets, TLC

VARIABLES
    data,     \* the row list db.get_aggregated_data returned to the call
    args,     \* the parameters of the call
    pc,       \* "ready" before the call, "done" once it has returned
    result    \* the value the call returned

vars == <<data, args, pc, result>>

-----------------------------------------------------------------------------
(* Arithmetic helpers                                                      *)

Max(a, b) == IF a >= b THEN a ELSE b

Min(a, b) == IF a <= b THEN a ELSE b

\* Python round(): the integer nearest to n / d (d > 0), ties to the even one.
RoundHalfEven(n, d) ==
    LET q == n \div d
        r == n % d
    IN  IF 2 * r < d THEN q
        ELSE IF 2 * r > d THEN q + 1
        ELSE IF q % 2 = 0 THEN q ELSE q + 1

\* round(x, 1) of a value in hundredths, again in hundredths.
Round1(x) == 10 * RoundHalfEven(x, 10)

\* int(): truncation towards zero of n / d (d > 0).
Trunc(n, d) == IF n >= 0 THEN n \div d ELSE -((-n) \div d)


\* list.sort(key=..., reverse=True) of s, key[i] being the key of s[i]:
\* stable, so records with equal keys keep their order.  Record i lands
\* after every record with a greater key and after the earlier records with
\* an equal key.
SortDescBy(s, key) ==
    LET n == Len(s)
        rank(i) == 1 + Cardinality({ j \in 1..n : key[j] > key[i] })
                     + Cardinality({ j \in 1..(i - 1) : key[j] = key[i] })
    IN  [ k \in 1..n |-> s[CHOOSE i \in 1..n : rank(i) = k] ]

\* Mutant: the slice keeps the last limit records.
TakeLast(s, limit) ==
    SubSeq(s, Len(s) - Min(limit, Len(s)) + 1, Len(s))

\* The slice s[:limit], a negative limit counting from the end.
Take(s, limit) ==
    LET n == IF limit >= 0 THEN Min(limit, Len(s)) ELSE Max(0, Len(s) + limit)
    IN  SubSeq(s, 1, n)

\* sum() of a sequence of numbers
Sum(s) ==
    LET g[i \in 0..Len(s)] == IF i = 0 THEN 0 ELSE g[i - 1] + s[i]
    IN  g[Len(s)]

-----------------------------------------------------------------------------
(* db.get_aggregated_data, group_by = 'query'                              *)

\* CASE WHEN SUM(impressions) > 0 THEN SUM(clicks) / SUM(impressions) ELSE 0
AvgCtr(clicks, impressions) ==
    IF impressions > 0 THEN <<clicks, impressions>> ELSE <<0, 1>>

\* One row of the result: GROUP BY query, page.
AggregatedRow(query, page, clicks, impressions, position) ==
    [ query             |-> query,
      page              |-> page,
      total_clicks      |-> clicks,
      total_impressions |-> impressions,
      avg_ctr           |-> AvgCtr(clicks, impressions),
      avg_position      |-> IF impressions > 0 THEN position ELSE 0 ]

\* Longest row list the data store returns.
MaxRows == 2

\* The (query, page) of the k-th group: GROUP BY makes them pairwise distinct.
GroupKey(k) == <<"q" \o ToString(k), "/p" \o ToString(k)>>

\* Row lists of at most MaxRows rows whose k-th row is the k-th group with
\* <<position, impressions, clicks>> drawn from metrics.
RowLists(metrics) ==
    UNION { [ 1..n -> metrics ] : n \in 0..MaxRows }

RowsOf(m) ==
    [ k \in DOMAIN m |->
        AggregatedRow(GroupKey(k)[1], GroupKey(k)[2], m[k][3], m[k][2], m[k][1]) ]

-----------------------------------------------------------------------------
(* get_expected_ctr                                                        *)

\* ctr_by_position, in hundredths (0.32 is 32).
ctr_by_position ==
    (1 :> 32) @@ (2 :> 24) @@ (3 :> 18) @@ (4 :> 13) @@ (5 :> 10) @@
    (6 :> 7) @@ (7 :> 6) @@ (8 :> 5) @@ (9 :> 4) @@ (10 :> 3)

\* Mutant: the thresholds are applied to the position before it is rounded.
get_expected_ctr_unrounded(position) ==
    IF position <= 0 THEN 32
    ELSE IF position > 1000 THEN 2
    ELSE LET pos == RoundHalfEven(position, 100)
         IN  IF pos \in DOMAIN ctr_by_position THEN ctr_by_position[pos] ELSE 32

\* Mutant: positions past the table get the value of position 5.
get_expected_ctr_tail(position) ==
    LET pos == RoundHalfEven(position, 100)
    IN  IF pos <= 0 THEN 32
        ELSE IF pos > 10 THEN 10
        ELSE ctr_by_position[pos]

get_expected_ctr(position) ==
    LET pos == RoundHalfEven(position, 100)
    IN  IF pos <= 0 THEN 32
        ELSE IF pos > 10 THEN 2
        ELSE IF pos \in DOMAIN ctr_by_position THEN ctr_by_position[pos] ELSE 3

\* Largest position (whole units) handed to get_expected_ctr, either sign.
MaxPosition == 12

\* Positions from -MaxPosition to MaxPosition in steps of 0.05.
PositionInputs == { 5 * k : k \in (-20 * MaxPosition) .. (20 * MaxPosition) }

InitCtr ==
    /\ data = <<>>
    /\ args \in [position : PositionInputs]
    /\ pc = "ready"
    /\ result = 0

CallExpectedCtr ==
    /\ pc = "ready"
    /\ "position" \in DOMAIN args
    /\ result' = get_expected_ctr(args.position)
    /\ pc' = "done"
    /\ UNCHANGED <<data, args>>

NextCtr == CallExpectedCtr

SpecCtr == InitCtr /\ [][NextCtr]_vars

\* C1 (as stated): for every real position, get_expected_ctr returns 0.32
\* when position <= 0 and 0.02 when position > 10.
C1_AsStated ==
    pc = "done" =>
        /\ (args.position <= 0 => result = 32)
        /\ (args.position > 1000 => result = 2)

\* C1 (amended): get_expected_ctr returns 0.32 when position <= 0 and 0.02
\* when the position rounded half-to-even exceeds 10, that is when
\* position > 10.5; for 10 < position <= 10.5 it returns 0.03.
C1_ExpectedCtrEnds ==
    pc = "done" =>
        /\ (args.position <= 0 => result = 32)
        /\ (args.position > 1050 => result = 2)
        /\ (args.position > 1000 /\ args.position <= 1050 => result = 3)

C1_Witness ==
    /\ pc = "done"
    /\ args.position > 1000
    /\ args.position <= 1050
    /\ result = 3

\* C2: get_expected_ctr is total; for rounded positions 1..10 it returns the
\* benchmark table value, and p <= q implies
\* get_expected_ctr(p) >= get_expected_ctr(q).
C2_TableAndMonotone ==
    pc = "done" =>
        LET r == RoundHalfEven(args.position, 100)
        IN  /\ result \in {32, 24, 18, 13, 10, 7, 6, 5, 4, 3, 2}
            /\ (r \in 1..10 => result = <<32, 24, 18, 13, 10, 7, 6, 5, 4, 3>>[r])
            /\ \A q \in PositionInputs :
                   args.position <= q => result >= get_expected_ctr(q)

C2_Witness ==
    /\ pc = "done"
    /\ args.position = 250
    /\ result = 24

-----------------------------------------------------------------------------
(* get_quick_wins                                                          *)

\* Mutant: the upper position bound is exclusive.
QuickWinSelectedExclusive(row, min_position, max_position, min_impressions) ==
    /\ min_position <= row.avg_position
    /\ row.avg_position < max_position
    /\ row.total_impressions >= min_impressions

QuickWinSelected(row, min_position, max_position, min_impressions) ==
    /\ min_position <= row.avg_position
    /\ row.avg_position <= max_position
    /\ row.total_impressions >= min_impressions

\* Mutant: the uplift is not clamped at 0 and the score uses the rounded
\* position.
QuickWinRecordRaw(row) ==
    LET position == row.avg_position
        impressions == row.total_impressions
        potential_clicks == Trunc(impressions * 25, 100)
    IN  [ query            |-> row.query,
          page             |-> row.page,
          position         |-> Round1(position),
          impressions      |-> impressions,
          clicks           |-> row.total_clicks,
          ctr              |-> RoundHalfEven(row.avg_ctr[1] * 10000, row.avg_ctr[2]),
          priority_score   |-> IF Round1(position) > 0
                               THEN RoundHalfEven(impressions * 10000, Round1(position))
                               ELSE 0,
          potential_clicks |-> potential_clicks,
          click_uplift     |-> potential_clicks - row.total_clicks,
          opportunity_type |-> "quick_win" ]

QuickWinRecord(row) ==
    LET position == row.avg_position
        impressions == row.total_impressions
        \* impressions * (1 / position) if position > 0 else 0, then round(_, 2)
        priority_score == IF position > 0
                          THEN RoundHalfEven(impressions * 10000, position)
                          ELSE 0
        potential_clicks == Trunc(impressions * 25, 100)
        click_uplift == potential_clicks - row.total_clicks
    IN  [ query            |-> row.query,
          page             |-> row.page,
          position         |-> Round1(position),
          impressions      |-> impressions,
          clicks           |-> row.total_clicks,
          ctr              |-> RoundHalfEven(row.avg_ctr[1] * 10000, row.avg_ctr[2]),
          priority_score   |-> priority_score,
          potential_clicks |-> potential_clicks,
          click_uplift     |-> Max(0, click_uplift),
          opportunity_type |-> "quick_win" ]

get_quick_wins(rows, min_position, max_position, min_impressions, limit) ==
    LET Keep(row) == QuickWinSelected(row, min_position, max_position, min_impressions)
        selected == SelectSeq(rows, Keep)
        quick_wins == [ i \in DOMAIN selected |-> QuickWinRecord(selected[i]) ]
        score == [ i \in DOMAIN quick_wins |-> quick_wins[i].priority_score ]
    IN  Take(SortDescBy(quick_wins, score), limit)

\* <<avg_position, total_impressions, total_clicks>> of the stored groups.
QuickWinMetrics ==
    ({375, 400, 425, 800, 2000, 2025}
        \X { <<100, 0>>, <<1000, 50>>, <<1000, 300>>, <<90, 10>> })
    \cup { <<0, <<0, 0>>>> }

QuickWinData ==
    { RowsOf([ k \in DOMAIN m |-> <<m[k][1], m[k][2][1], m[k][2][2]>> ]) :
        m \in RowLists(QuickWinMetrics) }

InitQuickWins ==
    /\ data \in QuickWinData
    /\ args = [ op |-> "none" ]
    /\ pc = "ready"
    /\ result = <<>>

CallQuickWins ==
    /\ pc = "ready"
    /\ \E min_position \in {0, 400, 425}, max_position \in {2000, 2025},
          min_impressions \in {0, 100}, limit \in {1, 100} :
        /\ args' = [ op              |-> "get_quick_wins",
                     min_position    |-> min_position,
                     max_position    |-> max_position,
                     min_impressions |-> min_impressions,
                     limit           |-> limit ]
        /\ result' = get_quick_wins(data, min_position, max_position,
                                    min_impressions, limit)
    /\ pc' = "done"
    /\ UNCHANGED data

NextQuickWins == CallQuickWins

SpecQuickWins == InitQuickWins /\ [][NextQuickWins]_vars

\* The rows of data that pass the quick-win filter of the call.
QuickWinQualifying ==
    { i \in 1..Len(data) :
        /\ args.min_position <= data[i].avg_position
        /\ data[i].avg_position <= args.max_position
        /\ data[i].total_impressions >= args.min_impressions }

\* Every qualifying row yields exactly one returned record when the
\* qualifying rows do not outnumber limit.
QuickWinComplete ==
    Cardinality(QuickWinQualifying) <= args.limit =>
        \A i \in QuickWinQualifying :
            Cardinality({ j \in 1..Len(result) :
                            /\ result[j].query = data[i].query
                            /\ result[j].page = data[i].page }) = 1

\* C3 (as stated): every record returned by get_quick_wins satisfies
\* min_position <= position <= max_position and impressions >=
\* min_impressions on its own fields, and every qualifying row yields
\* exactly one record when the qualifying rows do not exceed limit.
C3_AsStated ==
    pc = "done" =>
        /\ \A j \in 1..Len(result) :
            /\ args.min_position <= result[j].position
            /\ result[j].position <= args.max_position
            /\ result[j].impressions >= args.min_impressions
        /\ QuickWinComplete

\* C3 (amended): every record returned by get_quick_wins is made from a row
\* with min_position <= avg_position <= max_position and total_impressions
\* >= min_impressions; its position field is that avg_position rounded to 1
\* decimal, so it lies between the thresholds rounded to 1 decimal (not
\* always between the thresholds), its impressions field is >=
\* min_impressions; and every qualifying row yields exactly one record when
\* the qualifying rows do not exceed limit.
C3_QuickWinSelection ==
    pc = "done" =>
        /\ \A j \in 1..Len(result) :
            /\ \E i \in QuickWinQualifying :
                /\ result[j].query = data[i].query
                /\ result[j].page = data[i].page
                /\ result[j].position = Round1(data[i].avg_position)
                /\ result[j].impressions = data[i].total_impressions
            /\ Round1(args.min_position) <= result[j].position
            /\ result[j].position <= Round1(args.max_position)
            /\ result[j].impressions >= args.min_impressions
        /\ QuickWinComplete

\* A returned record whose rounded position is below min_position, and a
\* call that returned every qualifying row.
C3_Witness ==
    /\ pc = "done"
    /\ Len(result) = 2
    /\ Cardinality(QuickWinQualifying) = 2
    /\ \E j \in 1..Len(result) : result[j].position < args.min_position

\* C4 (as stated): on the record's own fields, priority_score ==
\* impressions / position (to the 2 decimals the field keeps) when position
\* > 0 and 0 otherwise, potential_clicks == int(impressions * 0.25),
\* click_uplift == max(0, potential_clicks - clicks) and is never negative.
C4_AsStated ==
    pc = "done" =>
        \A j \in 1..Len(result) :
            LET x == result[j]
            IN  /\ x.priority_score =
                       IF x.position > 0
                       THEN RoundHalfEven(x.impressions * 10000, x.position)
                       ELSE 0
                /\ x.potential_clicks = Trunc(x.impressions * 25, 100)
                /\ x.click_uplift = Max(0, x.potential_clicks - x.clicks)
                /\ x.click_uplift >= 0

\* C4 (amended): priority_score == impressions / avg_position rounded to 2
\* decimals, with the row's unrounded avg_position (the record's position
\* field is rounded to 1 decimal), when avg_position > 0 and 0 otherwise;
\* potential_clicks == int(impressions * 0.25) and click_uplift ==
\* max(0, potential_clicks - clicks) on the record's own fields, and
\* click_uplift is never negative.
C4_QuickWinScores ==
    pc = "done" =>
        \A j \in 1..Len(result) :
            LET x == result[j]
            IN  /\ \E i \in 1..Len(data) :
                    /\ x.query = data[i].query
                    /\ x.page = data[i].page
                    /\ x.position = Round1(data[i].avg_position)
                    /\ x.priority_score =
                           IF data[i].avg_position > 0
                           THEN RoundHalfEven(x.impressions * 10000,
                                              data[i].avg_position)
                           ELSE 0
                /\ x.potential_clicks = Trunc(x.impressions * 25, 100)
                /\ x.click_uplift = Max(0, x.potential_clicks - x.clicks)
                /\ x.click_uplift >= 0

\* A call that returned a record with an unrounded position of 4.25 whose
\* clicks exceed its potential clicks, and a record with position 0.
C4_Witness ==
    /\ pc = "done"
    /\ \E j \in 1..Len(result) :
        /\ result[j].position = 420
        /\ result[j].priority_score = 23529
        /\ result[j].clicks > result[j].potential_clicks
        /\ result[j].click_uplift = 0
    /\ \E j \in 1..Len(result) :
        /\ result[j].position = 0
        /\ result[j].priority_score = 0

-----------------------------------------------------------------------------
(* get_ctr_opportunities                                                   *)

\* Mutant: a CTR equal to max_ctr is selected too.
CtrOppSelectedInclusive(row, max_position, max_ctr, min_impressions) ==
    /\ row.avg_position <= max_position
    /\ 100 * row.avg_ctr[1] <= max_ctr * row.avg_ctr[2]
    /\ row.total_impressions >= min_impressions

\* position <= max_position and ctr < max_ctr and impressions >=
\* min_impressions; the CTR n / d is below max_ctr / 100 when
\* 100 * n < max_ctr * d.
CtrOppSelected(row, max_position, max_ctr, min_impressions) ==
    /\ row.avg_position <= max_position
    /\ 100 * row.avg_ctr[1] < max_ctr * row.avg_ctr[2]
    /\ row.total_impressions >= min_impressions

\* Mutant: the label thresholds are inclusive.
CtrOppPriorityInclusive(expected_ctr, ctr) ==
    LET gap == expected_ctr * ctr[2] - 100 * ctr[1]
    IN  IF gap >= 15 * ctr[2] THEN "high"
        ELSE IF gap >= 10 * ctr[2] THEN "medium"
        ELSE "low"

\* 'high' if ctr_gap > 0.15 else 'medium' if ctr_gap > 0.10 else 'low', with
\* ctr_gap = expected_ctr / 100 - n / d, that is gap / (100 * d).
CtrOppPriority(expected_ctr, ctr) ==
    LET gap == expected_ctr * ctr[2] - 100 * ctr[1]
    IN  IF gap > 15 * ctr[2] THEN "high"
        ELSE IF gap > 10 * ctr[2] THEN "medium"
        ELSE "low"

\* Mutant: the expected CTR is looked up for the position rounded to 1
\* decimal, and the uplift is not clamped.
CtrOppRecordRounded(row) ==
    LET ctr == row.avg_ctr
        expected_ctr == get_expected_ctr(Round1(row.avg_position))
        potential_clicks == Trunc(row.total_impressions * expected_ctr, 100)
    IN  [ query            |-> row.query,
          page             |-> row.page,
          position         |-> Round1(row.avg_position),
          impressions      |-> row.total_impressions,
          clicks           |-> row.total_clicks,
          ctr              |-> RoundHalfEven(ctr[1] * 10000, ctr[2]),
          expected_ctr     |-> 100 * expected_ctr,
          ctr_gap          |-> RoundHalfEven(
                                   (expected_ctr * ctr[2] - 100 * ctr[1]) * 100,
                                   ctr[2]),
          potential_clicks |-> potential_clicks,
          click_uplift     |-> potential_clicks - row.total_clicks,
          opportunity_type |-> "ctr_optimization",
          priority         |-> CtrOppPriority(expected_ctr, ctr) ]

\* The record of a selected row.  ctr, expected_ctr and ctr_gap are
\* percentages rounded to 2 decimals: round(x * 100, 2).
CtrOppRecord(row) ==
    LET position == row.avg_position
        ctr == row.avg_ctr
        impressions == row.total_impressions
        expected_ctr == get_expected_ctr(position)
        current_clicks == row.total_clicks
        potential_clicks == Trunc(impressions * expected_ctr, 100)
        click_uplift == potential_clicks - current_clicks
    IN  [ query            |-> row.query,
          page             |-> row.page,
          position         |-> Round1(position),
          impressions      |-> impressions,
          clicks           |-> current_clicks,
          ctr              |-> RoundHalfEven(ctr[1] * 10000, ctr[2]),
          expected_ctr     |-> 100 * expected_ctr,
          ctr_gap          |-> RoundHalfEven(
                                   (expected_ctr * ctr[2] - 100 * ctr[1]) * 100,
                                   ctr[2]),
          potential_clicks |-> potential_clicks,
          click_uplift     |-> Max(0, click_uplift),
          opportunity_type |-> "ctr_optimization",
          priority         |-> CtrOppPriority(expected_ctr, ctr) ]

get_ctr_opportunities(rows, max_position, max_ctr, min_impressions, limit) ==
    LET Keep(row) == CtrOppSelected(row, max_position, max_ctr, min_impressions)
        selected == SelectSeq(rows, Keep)
        opportunities == [ i \in DOMAIN selected |-> CtrOppRecord(selected[i]) ]
        gap == [ i \in DOMAIN opportunities |-> opportunities[i].ctr_gap ]
    IN  Take(SortDescBy(opportunities, gap), limit)

\* <<avg_position, <<total_impressions, total_clicks>>>> of the stored groups.
CtrOppMetrics ==
    ({200, 275, 300, 346, 1025}
        \X { <<200, 10>>, <<100, 3>>, <<100, 8>>, <<100, 19>>, <<100, 20>>,
             <<300, 1>>, <<30000, 899>> })
    \cup { <<0, <<0, 0>>>> }

CtrOppData ==
    { RowsOf([ k \in DOMAIN m |-> <<m[k][1], m[k][2][1], m[k][2][2]>> ]) :
        m \in RowLists(CtrOppMetrics) }

InitCtrOpps ==
    /\ data \in CtrOppData
    /\ args = [ op |-> "none" ]
    /\ pc = "ready"
    /\ result = <<>>

CallCtrOpps ==
    /\ pc = "ready"
    /\ \E max_position \in {275, 300, 1100}, max_ctr \in {5, 20},
          min_impressions \in {0, 50}, limit \in {1, 100} :
        /\ args' = [ op              |-> "get_ctr_opportunities",
                     max_position    |-> max_position,
                     max_ctr         |-> max_ctr,
                     min_impressions |-> min_impressions,
                     limit           |-> limit ]
        /\ result' = get_ctr_opportunities(data, max_position, max_ctr,
                                           min_impressions, limit)
    /\ pc' = "done"
    /\ UNCHANGED data

NextCtrOpps == CallCtrOpps

SpecCtrOpps == InitCtrOpps /\ [][NextCtrOpps]_vars

\* The rows of data that pass the CTR-gap filter of the call.
CtrOppQualifying ==
    { i \in 1..Len(data) :
        /\ data[i].avg_position <= args.max_position
        /\ 100 * data[i].avg_ctr[1] < args.max_ctr * data[i].avg_ctr[2]
        /\ data[i].total_impressions >= args.min_impressions }

\* The row a returned record was made from: (query, page) identifies it.
CtrOppSource(x) ==
    CHOOSE i \in 1..Len(data) : data[i].query = x.query /\ data[i].page = x.page

CtrOppComplete ==
    Cardinality(CtrOppQualifying) <= args.limit =>
        \A i \in CtrOppQualifying :
            Cardinality({ j \in 1..Len(result) :
                            /\ result[j].query = data[i].query
                            /\ result[j].page = data[i].page }) = 1

C6_AsStated ==
    pc = "done" =>
        \A j \in 1..Len(result) :
            LET x == result[j]
            IN  /\ x.ctr_gap = 100 * get_expected_ctr(x.position) - x.ctr
                /\ x.potential_clicks =
                       Trunc(x.impressions * get_expected_ctr(x.position), 100)
                /\ x.click_uplift = Max(0, x.potential_clicks - x.clicks)

\* C6 (amended): every record has ctr_gap == (expected_ctr(avg_position) -
\* avg_ctr) * 100 rounded to 2 decimals, a percentage like the record's ctr
\* and expected_ctr fields, where avg_position and avg_ctr are the row's
\* unrounded values (expected_ctr of the record's position, which is rounded
\* to 1 decimal, can differ: 3.46 is reported as 3.5); it equals the
\* record's expected_ctr - ctr; potential_clicks == int(impressions *
\* expected_ctr(avg_position)) and click_uplift == max(0, potential_clicks -
\* clicks).
C6_CtrGapValues ==
    pc = "done" =>
        \A j \in 1..Len(result) :
            LET x == result[j]
                row == data[CtrOppSource(x)]
                e == get_expected_ctr(row.avg_position)
            IN  /\ x.position = Round1(row.avg_position)
                /\ x.expected_ctr = 100 * e
                /\ x.ctr_gap = RoundHalfEven(
                       (e * row.avg_ctr[2] - 100 * row.avg_ctr[1]) * 100,
                       row.avg_ctr[2])
                /\ x.ctr_gap = x.expected_ctr - x.ctr
                /\ x.potential_clicks = Trunc(x.impressions * e, 100)
                /\ x.click_uplift = Max(0, x.potential_clicks - x.clicks)

\* A record of a row at position 3.46 (reported as 3.5, expected CTR of
\* position 3) whose CTR percentage needed rounding, and a record whose
\* clicks exceed its potential clicks.
C6_Witness ==
    /\ pc = "done"
    /\ \E j \in 1..Len(result) :
        /\ result[j].position = 350
        /\ result[j].expected_ctr = 1800
        /\ result[j].ctr = 33
        /\ result[j].ctr_gap = 1767
        /\ result[j].click_uplift > 0
    /\ \E j \in 1..Len(result) :
        /\ result[j].clicks > result[j].potential_clicks
        /\ result[j].click_uplift = 0

\* C7: the priority label is 'high' exactly when ctr_gap > 0.15, 'medium'
\* exactly when 0.10 < ctr_gap <= 0.15 and 'low' otherwise, ctr_gap being
\* expected_ctr(avg_position) - avg_ctr; a gap of exactly 0.15 gives
\* 'medium', of exactly 0.10 'low'; and the row with avg_position 2, avg_ctr
\* 0.05, total_impressions 200 under the default thresholds gives ctr_gap
\* 0.19 (reported as 19.0 percent) and 'high'.
C7_PriorityLabel ==
    pc = "done" =>
        \A j \in 1..Len(result) :
            LET x == result[j]
                row == data[CtrOppSource(x)]
                n == row.avg_ctr[1]
                d == row.avg_ctr[2]
                \* ctr_gap * 100 * d
                gap == get_expected_ctr(row.avg_position) * d - 100 * n
            IN  /\ x.priority \in {"high", "medium", "low"}
                /\ x.priority = "high" <=> gap > 15 * d
                /\ x.priority = "medium" <=> (gap > 10 * d /\ gap <= 15 * d)
                /\ x.priority = "low" <=> gap <= 10 * d
                /\ (/\ row.avg_position = 200
                    /\ row.total_impressions = 200
                    /\ n * 100 = 5 * d
                    /\ args.max_position = 300
                    /\ args.max_ctr = 20
                    /\ args.min_impressions = 50)
                   => (x.ctr_gap = 1900 /\ x.priority = "high")

\* One call returning the gap-0.15 row as 'medium' and the gap-0.10 row as
\* 'low'.
C7_Witness ==
    /\ pc = "done"
    /\ \E j \in 1..Len(result) :
        /\ result[j].ctr_gap = 1500
        /\ result[j].ctr = 300
        /\ result[j].priority = "medium"
    /\ \E j \in 1..Len(result) :
        /\ result[j].ctr_gap = 1000
        /\ result[j].priority = "low"

-----------------------------------------------------------------------------
(* get_pages_to_expand                                                     *)

\* The keys of page_data in insertion order: the non-empty pages of rows in
\* order of first occurrence.
PageKeys(rows) ==
    LET first == { i \in DOMAIN rows :
                     /\ rows[i].page # ""
                     /\ \A k \in 1..(i - 1) : rows[k].page # rows[i].page }
        nth(k) == CHOOSE i \in first : Cardinality({ j \in first : j < i }) = k - 1
    IN  [ k \in 1..Cardinality(first) |-> rows[nth(k)].page ]

\* Mutant: a query already in the page's list is not appended again.
PageEntryDistinct(rows, page) ==
    LET OfPage(row) == row.page = page
        mine == SelectSeq(rows, OfPage)
        First(i) == \A k \in 1..(i - 1) : mine[k].query # mine[i].query
        firsts == { i \in 1..Len(mine) : First(i) }
        nth(k) == CHOOSE i \in firsts :
                      Cardinality({ j \in firsts : j < i }) = k - 1
    IN  [ keywords          |-> [ k \in 1..Cardinality(firsts) |-> mine[nth(k)].query ],
          total_clicks      |-> Sum([ i \in DOMAIN mine |-> mine[i].total_clicks ]),
          total_impressions |-> Sum([ i \in DOMAIN mine |-> mine[i].total_impressions ]),
          positions         |-> [ i \in DOMAIN mine |-> mine[i].avg_position ],
          keyword_details   |-> [ i \in DOMAIN mine |->
                                    [ query       |-> mine[i].query,
                                      impressions |-> mine[i].total_impressions,
                                      clicks      |-> mine[i].total_clicks,
                                      position    |-> Round1(mine[i].avg_position) ] ] ]

\* page_data[page] after the loop over the rows: one element of each list
\* per row of the page, in row order.
PageEntry(rows, page) ==
    LET OfPage(row) == row.page = page
        mine == SelectSeq(rows, OfPage)
    IN  [ keywords          |-> [ i \in DOMAIN mine |-> mine[i].query ],
          total_clicks      |-> Sum([ i \in DOMAIN mine |-> mine[i].total_clicks ]),
          total_impressions |-> Sum([ i \in DOMAIN mine |-> mine[i].total_impressions ]),
          positions         |-> [ i \in DOMAIN mine |-> mine[i].avg_position ],
          keyword_details   |-> [ i \in DOMAIN mine |->
                                    [ query       |-> mine[i].query,
                                      impressions |-> mine[i].total_impressions,
                                      clicks      |-> mine[i].total_clicks,
                                      position    |-> Round1(mine[i].avg_position) ] ] ]

\* Mutant: the page's position is weighted by impressions.
PageRecordWeighted(page, entry) ==
    LET keyword_count == Len(entry.keywords)
        impressions == [ i \in DOMAIN entry.keyword_details |->
                           entry.keyword_details[i].impressions ]
        weighted == [ i \in DOMAIN entry.positions |->
                        entry.positions[i] * impressions[i] ]
        avg_position == IF Sum(impressions) > 0
                        THEN 10 * RoundHalfEven(Sum(weighted), 10 * Sum(impressions))
                        ELSE 0
    IN  [ page              |-> page,
          keyword_count     |-> keyword_count,
          total_clicks      |-> entry.total_clicks,
          total_impressions |-> entry.total_impressions,
          avg_position      |-> avg_position,
          top_keywords      |-> Take(SortDescBy(entry.keyword_details, impressions), 10),
          opportunity_type  |-> "expand_content",
          priority          |-> IF keyword_count >= 20 THEN "high"
                                ELSE IF keyword_count >= 10 THEN "medium"
                                ELSE "low" ]

\* The record of a page that has at least min_keywords keywords.
PageRecord(page, entry) ==
    LET keyword_count == Len(entry.keywords)
        \* round(sum(positions) / len(positions), 1), 0 for no position
        avg_position == IF Len(entry.positions) > 0
                        THEN 10 * RoundHalfEven(Sum(entry.positions),
                                                10 * Len(entry.positions))
                        ELSE 0
        impressions == [ i \in DOMAIN entry.keyword_details |->
                           entry.keyword_details[i].impressions ]
    IN  [ page              |-> page,
          keyword_count     |-> keyword_count,
          total_clicks      |-> entry.total_clicks,
          total_impressions |-> entry.total_impressions,
          avg_position      |-> avg_position,
          top_keywords      |-> Take(SortDescBy(entry.keyword_details, impressions), 10),
          opportunity_type  |-> "expand_content",
          priority          |-> IF keyword_count >= 20 THEN "high"
                                ELSE IF keyword_count >= 10 THEN "medium"
                                ELSE "low" ]

get_pages_to_expand(rows, min_keywords, limit) ==
    LET keys == PageKeys(rows)
        all == [ k \in DOMAIN keys |-> PageRecord(keys[k], PageEntry(rows, keys[k])) ]
        Enough(x) == x.keyword_count >= min_keywords
        pages_to_expand == SelectSeq(all, Enough)
        count == [ i \in DOMAIN pages_to_expand |-> pages_to_expand[i].keyword_count ]
    IN  Take(SortDescBy(pages_to_expand, count), limit)

\* Longest row list handed to get_pages_to_expand.
MaxPageRows == 3

\* Rows over two queries and two pages (or no page).  The lists include the
\* ones GROUP BY query, page can return (no pair twice) and, for the row
\* lists a stubbed data store can return, lists with a repeated pair.
PageRows ==
    { AggregatedRow(q, p, m[3], m[2], m[1]) :
        q \in {"a", "b"}, p \in {"", "/x", "/y"},
        m \in { <<100, 100, 5>>, <<150, 40, 0>> } }

PageData == UNION { [ 1..n -> PageRows ] : n \in 0..MaxPageRows }

InitExpand ==
    /\ data \in PageData
    /\ args = [ op |-> "none" ]
    /\ pc = "ready"
    /\ result = <<>>

CallExpand ==
    /\ pc = "ready"
    /\ \E min_keywords \in {1, 2, 3}, limit \in {1, 100} :
        /\ args' = [ op           |-> "get_pages_to_expand",
                     min_keywords |-> min_keywords,
                     limit        |-> limit ]
        /\ result' = get_pages_to_expand(data, min_keywords, limit)
    /\ pc' = "done"
    /\ UNCHANGED data

NextExpand == CallExpand

SpecExpand == InitExpand /\ [][NextExpand]_vars

\* The number of rows of data with this page, and the number of distinct
\* queries among them.
PageRowCount(page) == Cardinality({ i \in 1..Len(data) : data[i].page = page })

PageDistinctQueries(page) ==
    Cardinality({ data[i].query : i \in { k \in 1..Len(data) : data[k].page = page } })

\* No (query, page) pair occurs in two rows: what GROUP BY query, page returns.
NoRepeatedPair ==
    \A i, j \in 1..Len(data) :
        (data[i].query = data[j].query /\ data[i].page = data[j].page) => i = j

-----------------------------------------------------------------------------
(* cluster_keywords                                                        *)
(* A query is held as the sequence of its words; the string is the words   *)
(* joined by single spaces, and re.findall(r'\b\w+\b', query) returns the  *)
(* words in order.                                                         *)

stopwords ==
    {"the", "a", "an", "is", "are", "was", "were", "be", "been",
     "being", "have", "has", "had", "do", "does", "did", "will",
     "would", "could", "should", "may", "might", "must", "shall",
     "can", "need", "dare", "ought", "used", "to", "of", "in",
     "for", "on", "with", "at", "by", "from", "up", "about",
     "into", "over", "after", "and", "but", "or", "not", "what",
     "which", "who", "whom", "this", "that", "these", "those",
     "am", "than", "how", "when", "where", "why", "all", "each",
     "every", "both", "few", "more", "most", "other", "some",
     "such", "no", "nor", "only", "own", "same", "so", "just", "vs"}

\* str.lower() on the words of the model.
LowerWord(w) ==
    CASE w = "Shoes" -> "shoes"
      [] w = "Red"   -> "red"
      [] w = "The"   -> "the"
      [] OTHER       -> w

\* The lower-case words of the model in alphabetical order: sorted() on
\* strings compares them by this rank.
Alphabet == <<"best", "blue", "nike", "red", "shoes", "the">>

AlphaRank(w) == CHOOSE i \in 1..Len(Alphabet) : Alphabet[i] = w

\* ' '.join(words)
Join(words) ==
    LET g[i \in 0..Len(words)] ==
            IF i = 0 THEN ""
            ELSE IF i = 1 THEN words[1]
            ELSE g[i - 1] \o " " \o words[i]
    IN  g[Len(words)]

\* query.lower(), as words
LowerQuery(query) == [ i \in DOMAIN query |-> LowerWord(query[i]) ]

\* set(re.findall(r'\b\w+\b', query)) - stopwords
SignificantWords(query) ==
    { LowerQuery(query)[i] : i \in DOMAIN query } \ stopwords

\* The sequences that enumerate a set.
SetIterations(S) ==
    { f \in [ 1..Cardinality(S) -> S ] : \A i, j \in DOMAIN f : f[i] = f[j] => i = j }

\* sorted(words) of a sequence of distinct words
SortedWords(ws) ==
    LET n == Len(ws)
        rank(i) == 1 + Cardinality({ j \in 1..n : AlphaRank(ws[j]) < AlphaRank(ws[i]) })
    IN  [ k \in 1..n |-> ws[CHOOSE i \in 1..n : rank(i) = k] ]

\* The arrangements sorted(words, key=len, reverse=True) can return: the
\* sort is stable, so words of equal length stay in the order in which the
\* set is iterated, and that order follows from the string hashes of the
\* process and from the order in which the words were inserted.
LengthSorted(words) ==
    { f \in SetIterations(words) :
        \A i, j \in DOMAIN f : i < j => Len(f[i]) >= Len(f[j]) }

\* Mutant: a query with fewer than 2 significant words is named by its
\* significant words only.
ClusterNameShort(query, iteration) ==
    Join(SortedWords(Take(iteration, 3)))

\* The cluster name of a query; iteration is what
\* sorted(words, key=len, reverse=True) returned for its significant words.
ClusterName(query, iteration) ==
    LET words == SignificantWords(query)
    IN  IF Cardinality(words) < 2
        THEN Join(LowerQuery(query))
        ELSE \* sorted(words, key=len, reverse=True)[:3], then sorted and joined
             Join(SortedWords(Take(iteration, 3)))

\* The arrangement for one query: fixed for a lower-cased query within a
\* call (same words inserted in the same order), free otherwise: order[q]
\* for a set of more than 3 words.  For at most 3 words every arrangement
\* gives the same name (the slice keeps them all), and one is picked.
IterationOrder(query, order) ==
    LET words == SignificantWords(query)
    IN  IF Cardinality(words) > 3 THEN order[LowerQuery(query)]
        ELSE CHOOSE f \in LengthSorted(words) : TRUE

\* The lower-cased queries of keywords that have more than 3 significant
\* words.
LongQueries(keywords) ==
    { LowerQuery(keywords[i].query) :
        i \in { k \in 1..Len(keywords) :
                  Cardinality(SignificantWords(keywords[k].query)) > 3 } }

\* The arrangements a call can meet, one per long query.
IterationOrders(keywords) ==
    LET long == LongQueries(keywords)
        sorted == [ q \in long |-> LengthSorted(SignificantWords(q)) ]
        all == UNION { sorted[q] : q \in long }
    IN  { order \in [ long -> all ] : \A q \in long : order[q] \in sorted[q] }

\* best_position starts at 100.
BestPositionInit == 10000

\* Mutant: a cluster keeps its first member only.
cluster_keywords_first(keywords, order) ==
    LET name == [ i \in DOMAIN keywords |->
                    ClusterName(keywords[i].query,
                                IterationOrder(keywords[i].query, order)) ]
        first == { i \in DOMAIN keywords : \A k \in 1..(i - 1) : name[k] # name[i] }
        nth(k) == CHOOSE i \in first : Cardinality({ j \in first : j < i }) = k - 1
        members(c) == { i \in DOMAIN keywords : name[i] = c }
        memberSeq(c) ==
            [ k \in 1..1 |->
                CHOOSE i \in members(c) :
                    Cardinality({ j \in members(c) : j < i }) = k - 1 ]
        best[c \in { name[i] : i \in DOMAIN keywords }] ==
            LET ms == memberSeq(c)
                g[k \in 0..Len(ms)] ==
                    IF k = 0 THEN BestPositionInit
                    ELSE Min(g[k - 1], keywords[ms[k]].position)
            IN  g[Len(ms)]
        cluster(c) ==
            LET ms == memberSeq(c)
            IN  [ name              |-> c,
                  queries           |-> [ k \in DOMAIN ms |->
                                            [ query       |-> keywords[ms[k]].query,
                                              impressions |-> keywords[ms[k]].impressions,
                                              clicks      |-> keywords[ms[k]].clicks,
                                              position    |-> keywords[ms[k]].position ] ],
                  total_impressions |-> Sum([ k \in DOMAIN ms |-> keywords[ms[k]].impressions ]),
                  total_clicks      |-> Sum([ k \in DOMAIN ms |-> keywords[ms[k]].clicks ]),
                  best_position     |-> best[c],
                  pages             |-> { keywords[i].page : i \in members(c) } \ {""} ]
    IN  [ k \in 1..Cardinality(first) |-> cluster(name[nth(k)]) ]

\* The clusters in the order of the returned dict: insertion order, that is
\* the first occurrence of each name.
cluster_keywords(keywords, order) ==
    LET name == [ i \in DOMAIN keywords |->
                    ClusterName(keywords[i].query,
                                IterationOrder(keywords[i].query, order)) ]
        first == { i \in DOMAIN keywords : \A k \in 1..(i - 1) : name[k] # name[i] }
        nth(k) == CHOOSE i \in first : Cardinality({ j \in first : j < i }) = k - 1
        members(c) == { i \in DOMAIN keywords : name[i] = c }
        memberSeq(c) ==
            [ k \in 1..Cardinality(members(c)) |->
                CHOOSE i \in members(c) :
                    Cardinality({ j \in members(c) : j < i }) = k - 1 ]
        best[c \in { name[i] : i \in DOMAIN keywords }] ==
            LET ms == memberSeq(c)
                g[k \in 0..Len(ms)] ==
                    IF k = 0 THEN BestPositionInit
                    ELSE Min(g[k - 1], keywords[ms[k]].position)
            IN  g[Len(ms)]
        cluster(c) ==
            LET ms == memberSeq(c)
            IN  [ name              |-> c,
                  queries           |-> [ k \in DOMAIN ms |->
                                            [ query       |-> keywords[ms[k]].query,
                                              impressions |-> keywords[ms[k]].impressions,
                                              clicks      |-> keywords[ms[k]].clicks,
                                              position    |-> keywords[ms[k]].position ] ],
                  total_impressions |-> Sum([ k \in DOMAIN ms |-> keywords[ms[k]].impressions ]),
                  total_clicks      |-> Sum([ k \in DOMAIN ms |-> keywords[ms[k]].clicks ]),
                  best_position     |-> best[c],
                  pages             |-> { keywords[i].page : i \in members(c) } \ {""} ]
    IN  [ k \in 1..Cardinality(first) |-> cluster(name[nth(k)]) ]

\* Longest keyword list handed to cluster_keywords.
MaxKeywords == 2

ClusterQueries ==
    { <<"shoes">>, <<"Shoes">>, <<"The", "shoes">>, <<"shoes", "shoes">>,
      <<"red", "shoes">>, <<"Shoes", "Red">>,
      <<"best", "nike", "blue", "shoes">>, <<"best", "blue", "nike", "shoes">> }

\* Keyword records as get_content_gaps builds them.
\* Every query on two pages, and one record whose page is empty.
KeywordRecords ==
    { [ query |-> q, page |-> m[1], impressions |-> m[2], clicks |-> m[3], position |-> m[4] ] :
        q \in ClusterQueries,
        m \in { <<"/x", 60, 1, 2500>>, <<"/y", 600, 5, 15000>> } }
    \cup { [ query |-> <<"shoes">>, page |-> "", impressions |-> 60, clicks |-> 1, position |-> 2500 ] }

\* Lists in which no (query, page) pair occurs twice, as the rows of
\* get_aggregated_data (GROUP BY query, page) filtered by get_content_gaps.
KeywordLists ==
    { ks \in UNION { [ 1..n -> KeywordRecords ] : n \in 0..MaxKeywords } :
        \A i, j \in DOMAIN ks :
            (ks[i].query = ks[j].query /\ ks[i].page = ks[j].page) => i = j }

InitCluster ==
    /\ data \in KeywordLists
    /\ args = [ op |-> "none" ]
    /\ pc = "ready"
    /\ result = <<>>

CallCluster ==
    /\ pc = "ready"
    /\ \E order \in IterationOrders(data) :
        /\ args' = [ op |-> "cluster_keywords", order |-> order ]
        /\ result' = cluster_keywords(data, order)
    /\ pc' = "done"
    /\ UNCHANGED data

NextCluster == CallCluster

SpecCluster == InitCluster /\ [][NextCluster]_vars

\* Some cluster of the result lists the queries of both records i and j.
SameCluster(i, j) ==
    \E k \in 1..Len(result) :
        /\ \E a \in 1..Len(result[k].queries) :
               result[k].queries[a].query = data[i].query
        /\ \E b \in 1..Len(result[k].queries) :
               result[k].queries[b].query = data[j].query

\* C9: any two queries whose sets of non-stopword tokens are identical and
\* have at least 2 elements are assigned the same cluster name, whatever the
\* order and letter case of their words and however many significant words
\* the set has (also more than 3 with equal-length words at the top-3
\* cut-off).
C9_SameWordsSameCluster ==
    pc = "done" =>
        \A i, j \in 1..Len(data) :
            (/\ SignificantWords(data[i].query) = SignificantWords(data[j].query)
             /\ Cardinality(SignificantWords(data[i].query)) >= 2)
            => SameCluster(i, j)

\* The records of data whose lower-cased raw query is this name.
SameLowerQuery(name) ==
    { j \in 1..Len(data) : Join(LowerQuery(data[j].query)) = name }

\* C10 (as stated): a record whose query has fewer than 2 significant words
\* is placed in a cluster named by the lower-cased raw query, and that
\* cluster contains exactly that one record, for any input list.
C10_AsStated ==
    pc = "done" =>
        \A i \in 1..Len(data) :
            Cardinality(SignificantWords(data[i].query)) < 2 =>
                \E k \in 1..Len(result) :
                    /\ result[k].name = Join(LowerQuery(data[i].query))
                    /\ Len(result[k].queries) = 1
                    /\ result[k].queries[1].query = data[i].query

\* C10 (amended): a record whose query has fewer than 2 significant words is
\* placed in the cluster named by the lower-cased raw query, and that
\* cluster contains exactly the records of the input whose lower-cased raw
\* query is that name, one entry each: it is a singleton exactly when no
\* other record has the same query up to letter case (the same query on
\* another page, or in another case, shares the cluster).
C10_ShortQueryCluster ==
    pc = "done" =>
        \A i \in 1..Len(data) :
            Cardinality(SignificantWords(data[i].query)) < 2 =>
                LET name == Join(LowerQuery(data[i].query))
                    named == { k \in 1..Len(result) : result[k].name = name }
                IN  /\ Cardinality(named) = 1
                    /\ \A k \in named :
                        /\ Len(result[k].queries) = Cardinality(SameLowerQuery(name))
                        /\ \A a \in 1..Len(result[k].queries) :
                               Join(LowerQuery(result[k].queries[a].query)) = name
                        /\ \E a \in 1..Len(result[k].queries) :
                               result[k].queries[a].query = data[i].query
                        /\ result[k].pages =
                               { data[j].page : j \in SameLowerQuery(name) } \ {""}
                        /\ (Len(result[k].queries) = 1
                               <=> SameLowerQuery(name) = {i})

\* The query "shoes" on one page and "Shoes" on another, together in the
\* cluster "shoes".
C10_Witness ==
    /\ pc = "done"
    /\ Len(result) = 1
    /\ result[1].name = "shoes"
    /\ Len(result[1].queries) = 2
    /\ result[1].queries[1].query # result[1].queries[2].query
    /\ result[1].pages = {"/x", "/y"}

-----------------------------------------------------------------------------
(* get_declining_keywords                                                  *)

\* previous_lookup[key]: the dict comprehension keeps the last row of a key.
PreviousLookup(previous_data, key) ==
    LET at == { j \in DOMAIN previous_data :
                  <<previous_data[j].query, previous_data[j].page>> = key }
    IN  IF at = {} THEN <<>>
        ELSE <<previous_data[CHOOSE j \in at : \A k \in at : k <= j]>>

\* decline_percent >= min_decline_percent, decline_percent being
\* decline / prev_clicks * 100 when prev_clicks > 0 and 0 otherwise;
\* the threshold is in hundredths.
DeclineAtLeast(decline, prev_clicks, percent) ==
    IF prev_clicks > 0 THEN decline * 10000 >= percent * prev_clicks
    ELSE 0 >= percent

\* Mutant: a previous-clicks count of 0 is divided by as if it were 1.
DeclinePercentUnguarded(decline, prev_clicks) ==
    10 * RoundHalfEven(decline * 1000, Max(prev_clicks, 1))

\* round(decline_percent, 1), in hundredths.
DeclinePercentRounded(decline, prev_clicks) ==
    IF prev_clicks > 0 THEN 10 * RoundHalfEven(decline * 1000, prev_clicks) ELSE 0

\* The previous-window row of a recent row, as a sequence of 0 or 1 rows.
DecliningPrev(row, previous_data) ==
    PreviousLookup(previous_data, <<row.query, row.page>>)

\* Mutant: the previous-clicks threshold is not applied.
DecliningSelectedAnyPrevious(row, prev, min_previous_clicks, min_decline_percent) ==
    DeclineAtLeast(prev.total_clicks - row.total_clicks, prev.total_clicks,
                   min_decline_percent)

DecliningSelected(row, prev, min_previous_clicks, min_decline_percent) ==
    /\ prev.total_clicks >= min_previous_clicks
    /\ DeclineAtLeast(prev.total_clicks - row.total_clicks, prev.total_clicks,
                      min_decline_percent)

\* Mutant: position_change and priority are computed from the rounded
\* fields of the record.
DecliningRecordFromFields(row, prev) ==
    LET prev_clicks == prev.total_clicks
        curr_clicks == row.total_clicks
        decline == prev_clicks - curr_clicks
    IN  [ query                |-> row.query,
          page                 |-> row.page,
          previous_clicks      |-> prev_clicks,
          current_clicks       |-> curr_clicks,
          decline              |-> decline,
          decline_percent      |-> DeclinePercentRounded(decline, prev_clicks),
          previous_position    |-> Round1(prev.avg_position),
          current_position     |-> Round1(row.avg_position),
          position_change      |-> Round1(row.avg_position) - Round1(prev.avg_position),
          previous_impressions |-> prev.total_impressions,
          current_impressions  |-> row.total_impressions,
          opportunity_type     |-> "declining",
          priority             |-> IF DeclinePercentRounded(decline, prev_clicks) >= 5000
                                   THEN "high" ELSE "medium" ]

DecliningRecord(row, prev) ==
    LET prev_clicks == prev.total_clicks
        curr_clicks == row.total_clicks
        decline == prev_clicks - curr_clicks
    IN  [ query                |-> row.query,
          page                 |-> row.page,
          previous_clicks      |-> prev_clicks,
          current_clicks       |-> curr_clicks,
          decline              |-> decline,
          decline_percent      |-> DeclinePercentRounded(decline, prev_clicks),
          previous_position    |-> Round1(prev.avg_position),
          current_position     |-> Round1(row.avg_position),
          position_change      |-> Round1(row.avg_position - prev.avg_position),
          previous_impressions |-> prev.total_impressions,
          current_impressions  |-> row.total_impressions,
          opportunity_type     |-> "declining",
          priority             |-> IF DeclineAtLeast(decline, prev_clicks, 5000)
                                   THEN "high" ELSE "medium" ]

get_declining_keywords(recent_data, previous_data, min_previous_clicks, min_decline_percent, limit) ==
    LET Keep(row) ==
            LET prev == DecliningPrev(row, previous_data)
            IN  /\ prev # <<>>
                /\ DecliningSelected(row, prev[1], min_previous_clicks,
                                     min_decline_percent)
        selected == SelectSeq(recent_data, Keep)
        declining == [ i \in DOMAIN selected |->
                         DecliningRecord(selected[i],
                                         DecliningPrev(selected[i], previous_data)[1]) ]
        decline == [ i \in DOMAIN declining |-> declining[i].decline ]
    IN  Take(SortDescBy(declining, decline), limit)

\* Longest row list of one window.
MaxWindowRows == 3

\* The (query, page) groups of the two windows.
WindowKeys == { <<"a", "/x">>, <<"a", "/y">>, <<"b", "/x">> }

\* Row lists of one window: pairwise distinct groups (GROUP BY query, page),
\* 1000 impressions each, total_clicks drawn from clicks.
WindowData(clicks, position) ==
    LET rows == { AggregatedRow(k[1], k[2], c, 1000, position) :
                    k \in WindowKeys, c \in clicks }
    IN  { s \in UNION { [ 1..n -> rows ] : n \in 0..MaxWindowRows } :
            \A i, j \in DOMAIN s :
                (s[i].query = s[j].query /\ s[i].page = s[j].page) => i = j }

InitDeclining ==
    /\ data \in [ recent : WindowData({0, 35, 40}, 425),
                  previous : WindowData({0, 49, 60}, 300) ]
    /\ args = [ op |-> "none" ]
    /\ pc = "ready"
    /\ result = <<>>

CallDeclining ==
    /\ pc = "ready"
    /\ \E min_previous_clicks \in {0, 50}, min_decline_percent \in {0, 3333, 5000},
          limit \in {0, 1, 100} :
        /\ args' = [ op                  |-> "get_declining_keywords",
                     min_previous_clicks |-> min_previous_clicks,
                     min_decline_percent |-> min_decline_percent,
                     limit               |-> limit ]
        /\ result' = get_declining_keywords(data.recent, data.previous,
                                            min_previous_clicks,
                                            min_decline_percent, limit)
    /\ pc' = "done"
    /\ UNCHANGED data

NextDeclining == CallDeclining

SpecDeclining == InitDeclining /\ [][NextDeclining]_vars

\* The rows of a window that belong to the group of record x.
WindowRows(window, x) ==
    { i \in DOMAIN window : window[i].query = x.query /\ window[i].page = x.page }

\* C11: every record returned by get_declining_keywords is made from a
\* (query, page) pair that has a row in the recent and in the previous
\* window, whose previous clicks are >= min_previous_clicks and whose
\* decline percentage (previous - current) / previous * 100 is
\* >= min_decline_percent; the record carries the two click counts of the
\* pair.  Hence a pair of one window only, or one with fewer previous
\* clicks than the threshold, is never returned.
C11_DecliningSelection ==
    pc = "done" =>
        \A k \in DOMAIN result :
            LET x == result[k]
            IN  /\ \E i \in WindowRows(data.recent, x) :
                        data.recent[i].total_clicks = x.current_clicks
                /\ \E j \in WindowRows(data.previous, x) :
                        data.previous[j].total_clicks = x.previous_clicks
                /\ x.previous_clicks >= args.min_previous_clicks
                /\ x.decline = x.previous_clicks - x.current_clicks
                /\ DeclineAtLeast(x.decline, x.previous_clicks,
                                  args.min_decline_percent)

\* A call that returns one pair while the input also holds a pair present
\* in the recent window only, a pair present in the previous window only,
\* and the threshold 50 rejects a pair with 49 previous clicks and none now.
C11_Witness ==
    /\ pc = "done"
    /\ Len(result) = 1
    /\ args.limit = 100
    /\ args.min_previous_clicks = 50
    /\ \E i \in DOMAIN data.recent :
           WindowRows(data.previous, data.recent[i]) = {}
    /\ \E j \in DOMAIN data.previous :
           /\ data.previous[j].total_clicks = 49
           /\ \E i \in WindowRows(data.recent, data.previous[j]) :
                  data.recent[i].total_clicks = 0

-----------------------------------------------------------------------------
(* get_all_keywords                                                        *)
(* Text is a sequence of one-character strings, so that lower() and the    *)
(* substring test of the search filter are computed.                       *)

\* Unicode code points of the characters used.
CodePoint ==
    ("/" :> 47) @@ ("A" :> 65) @@ ("S" :> 83) @@ ("a" :> 97) @@ ("b" :> 98) @@
    ("s" :> 115)

\* str.lower() of one character: the character 32 code points further on.
LowerChar(c) ==
    IF CodePoint[c] >= 65 /\ CodePoint[c] <= 90
    THEN CHOOSE d \in DOMAIN CodePoint : CodePoint[d] = CodePoint[c] + 32
    ELSE c

\* str.lower()
Lower(text) == [ i \in DOMAIN text |-> LowerChar(text[i]) ]

\* needle in text
Contains(text, needle) ==
    \E k \in 0..(Len(text) - Len(needle)) :
        \A i \in 1..Len(needle) : text[k + i] = needle[i]

\* a < b on strings: code point order, a proper prefix first.
StrLess(a, b) ==
    \E k \in 1..(Len(b)) :
        /\ k <= Len(a) + 1
        /\ \A i \in 1..(k - 1) : a[i] = b[i]
        /\ k = Len(a) + 1 \/ CodePoint[a[k]] < CodePoint[b[k]]

\* a < b on the quotients a[1] / a[2] and b[1] / b[2]
CtrLess(a, b) == a[1] * b[2] < b[1] * a[2]

\* The row filter of the search term; None and '' keep every row.
SearchMatches(row, search) ==
    \/ search = <<>>
    \/ Contains(Lower(row.query), Lower(search))
    \/ Contains(Lower(row.page), Lower(search))

\* x < y under the key chosen by sort_by, an unknown name meaning impressions.
SortKeyLess(sort_by, x, y) ==
    CASE sort_by = "clicks"   -> x.total_clicks < y.total_clicks
      [] sort_by = "ctr"      -> CtrLess(x.avg_ctr, y.avg_ctr)
      [] sort_by = "position" -> x.avg_position < y.avg_position
      [] sort_by = "query"    -> StrLess(Lower(x.query), Lower(y.query))
      [] OTHER                -> x.total_impressions < y.total_impressions

\* Mutant: the direction is not inverted for position.
SortReversePlain(sort_by, sort_order) == sort_order = "desc"

\* reverse, as handed to data.sort
SortReverse(sort_by, sort_order) ==
    IF sort_by = "position" THEN sort_order # "desc" ELSE sort_order = "desc"

\* data.sort(key=sort_key, reverse=reverse): stable in both directions.
SortRows(rows, sort_by, reverse) ==
    LET n == Len(rows)
        before(j, i) == IF reverse THEN SortKeyLess(sort_by, rows[i], rows[j])
                                   ELSE SortKeyLess(sort_by, rows[j], rows[i])
        tie(j, i) == ~before(j, i) /\ ~before(i, j)
        rank(i) == 1 + Cardinality({ j \in 1..n : before(j, i) })
                     + Cardinality({ j \in 1..(i - 1) : tie(j, i) })
    IN  [ k \in 1..n |-> rows[CHOOSE i \in 1..n : rank(i) = k] ]

\* The slice s[start:end] of a list.
Slice(s, start, end) ==
    LET n == Len(s)
        clip(i) == IF i < 0 THEN Max(0, n + i) ELSE Min(i, n)
    IN  SubSeq(s, clip(start) + 1, clip(end))

KeywordRow(row) ==
    [ query       |-> row.query,
      page        |-> row.page,
      impressions |-> row.total_impressions,
      clicks      |-> row.total_clicks,
      ctr         |-> RoundHalfEven(row.avg_ctr[1] * 10000, row.avg_ctr[2]),
      position    |-> Round1(row.avg_position) ]

\* Mutant: the slice of a page starts one row late.
PageSliceLate(rows, page, per_page) ==
    Slice(rows, (page - 1) * per_page + 1, (page - 1) * per_page + per_page)

PageSlice(rows, page, per_page) ==
    Slice(rows, (page - 1) * per_page, (page - 1) * per_page + per_page)

TotalPages(total_count, per_page) == (total_count + per_page - 1) \div per_page

\* <<formatted, total_count, total_pages>>
get_all_keywords(rows, search, sort_by, sort_order, page, per_page) ==
    LET Keep(row) == SearchMatches(row, search)
        filtered == SelectSeq(rows, Keep)
        sorted == SortRows(filtered, sort_by, SortReverse(sort_by, sort_order))
        total_count == Len(sorted)
        total_pages == TotalPages(total_count, per_page)
        paginated_data == PageSlice(sorted, page, per_page)
    IN  << [ i \in DOMAIN paginated_data |-> KeywordRow(paginated_data[i]) ],
           total_count, total_pages >>

\* Longest row list handed to get_all_keywords.
MaxKeywordRows == 4

\* The stored groups: <<query, page, total_clicks, total_impressions, avg_position>>.
KeywordGroups ==
    { << <<"a">>,      <<"/", "s">>, 20, 200, 150 >>,
      << <<"S", "a">>, <<"/", "a">>,  5, 100, 425 >>,
      << <<"a", "b">>, <<"/", "b">>,  5, 100, 300 >>,
      << <<"b">>,      <<"/", "a">>,  1,  50, 1000 >>,
      << <<"s", "a">>, <<"/", "b">>,  0,   0, 0 >> }

\* Row lists as the query returns them: each group at most once,
\* ORDER BY total_impressions DESC.
KeywordData ==
    LET rows == { AggregatedRow(g[1], g[2], g[3], g[4], g[5]) : g \in KeywordGroups }
    IN  { s \in UNION { [ 1..n -> rows ] : n \in 0..MaxKeywordRows } :
            /\ \A i, j \in DOMAIN s : s[i] = s[j] => i = j
            /\ \A i, j \in DOMAIN s :
                   i < j => s[i].total_impressions >= s[j].total_impressions }

InitAllKeywords ==
    /\ data \in KeywordData
    /\ args = [ op |-> "none" ]
    /\ pc = "ready"
    /\ result = [ slices |-> <<>>, total_count |-> 0, total_pages |-> 0 ]

\* One request for the page `page`; its slice is kept when the page is one
\* of 1..total_pages.
FetchPage(search, sort_by, sort_order, page, per_page) ==
    LET r == get_all_keywords(data, search, sort_by, sort_order, page, per_page)
    IN  /\ args' = [ op         |-> "get_all_keywords",
                     search     |-> search,
                     sort_by    |-> sort_by,
                     sort_order |-> sort_order,
                     page       |-> page,
                     per_page   |-> per_page ]
        /\ result' = [ slices      |-> IF page <= r[3]
                                       THEN Append(result.slices, r[1])
                                       ELSE result.slices,
                       total_count |-> r[2],
                       total_pages |-> r[3] ]
        /\ pc' = IF page >= r[3] THEN "done" ELSE "paging"
        /\ UNCHANGED data

\* The first request: page 1 under some search and sort parameters.
CallAllKeywords ==
    /\ pc = "ready"
    /\ \E search \in { <<>>, <<"A">>, <<"s", "a">>, <<"b">> },
          sort_by \in { "impressions", "clicks", "ctr", "position", "query", "other" },
          sort_order \in { "desc", "asc" },
          per_page \in { 1, 2, 3 } :
        FetchPage(search, sort_by, sort_order, 1, per_page)

\* The request for the following page, under the same parameters.
CallNextPage ==
    /\ pc = "paging"
    /\ FetchPage(args.search, args.sort_by, args.sort_order, args.page + 1,
                 args.per_page)

NextAllKeywords == CallAllKeywords \/ CallNextPage

SpecAllKeywords == InitAllKeywords /\ [][NextAllKeywords]_vars

\* The concatenation of a sequence of lists.
Concat(lists) ==
    LET g[i \in 0..Len(lists)] == IF i = 0 THEN <<>> ELSE g[i - 1] \o lists[i]
    IN  g[Len(lists)]

\* C12: total_pages is ceil(total_count / per_page), and once the pages
\* 1..total_pages have been fetched under the same data and parameters,
\* the concatenation of their slices has total_count records, holds every
\* row that passes the search filter exactly once and no other, and is in
\* the order of the sort key (ascending or descending as requested).
C12_Pagination ==
    pc # "ready" =>
        /\ result.total_pages * args.per_page >= result.total_count
        /\ (result.total_pages - 1) * args.per_page < result.total_count
        /\ result.total_count =
               Cardinality({ i \in DOMAIN data : SearchMatches(data[i], args.search) })
        /\ pc = "done" =>
            LET all == Concat(result.slices)
                Source(x) == { i \in DOMAIN data :
                                 data[i].query = x.query /\ data[i].page = x.page }
                row(k) == data[CHOOSE i \in Source(all[k]) : TRUE]
                reverse == SortReverse(args.sort_by, args.sort_order)
            IN  /\ Len(result.slices) = result.total_pages
                /\ Len(all) = result.total_count
                /\ \A i \in DOMAIN data :
                       Cardinality({ k \in DOMAIN all :
                                       /\ all[k].query = data[i].query
                                       /\ all[k].page = data[i].page }) =
                       IF SearchMatches(data[i], args.search) THEN 1 ELSE 0
                /\ \A k \in DOMAIN all : all[k] = KeywordRow(row(k))
                /\ \A k, l \in DOMAIN all :
                       k < l =>
                           IF reverse
                           THEN ~SortKeyLess(args.sort_by, row(k), row(l))
                           ELSE ~SortKeyLess(args.sort_by, row(l), row(k))

\* Three rows pass the filter and have been fetched as two pages of 2 and 1.
C12_Witness ==
    /\ pc = "done"
    /\ args.per_page = 2
    /\ args.search # <<>>
    /\ result.total_count = 3
    /\ Len(data) = 4
    /\ Len(result.slices) = 2
    /\ Len(result.slices[1]) = 2
    /\ Len(result.slices[2]) = 1

-----------------------------------------------------------------------------
(* get_content_gaps                                                        *)

\* The record appended to poor_ranking for a row.
PoorRankingRecord(row) ==
    [ query       |-> row.query,
      page        |-> row.page,
      position    |-> row.avg_position,
      impressions |-> row.total_impressions,
      clicks      |-> row.total_clicks ]

\* poor_ranking: the rows ranking at min_position or worse with enough
\* impressions.
PoorRanking(rows, min_position, min_impressions) ==
    LET Keep(row) == /\ row.avg_position >= min_position
                     /\ row.total_impressions >= min_impressions
        selected == SelectSeq(rows, Keep)
    IN  [ i \in DOMAIN selected |-> PoorRankingRecord(selected[i]) ]

\* Largest hash seed of a process.  The iteration order of a set of
\* strings follows their hashes, which PYTHONHASHSEED (random for each
\* process unless set) determines.
MaxHashSeeds == 2

HashSeeds == 1..MaxHashSeeds

\* The pages of the stored rows.
PageUniverse ==
    <<"/x", "/y", "/p0", "/p1", "/p2", "/p3", "/p4", "/p5", "/p6", "/p7", "/p8",
      "/p9", "/p10">>

\* The slot of a page in a set, from its hash under the seed: the seeds
\* arrange the pages differently.
StringHash(seed, page) ==
    LET index == CHOOSE i \in DOMAIN PageUniverse : PageUniverse[i] = page
        multiplier == IF seed % 2 = 1 THEN seed ELSE 17 - seed
    IN  (index * multiplier) % 17

\* list(pages): the pages in the order of their slots.
SetIteration(pages, seed) ==
    [ k \in 1..Cardinality(pages) |->
        CHOOSE page \in pages :
            Cardinality({ other \in pages :
                            StringHash(seed, other) < StringHash(seed, page) }) = k - 1 ]

\* Mutant: a cluster of exactly 500 impressions is labelled high.
ContentGapRecordInclusive(cluster, seed) ==
    [ cluster_name      |-> cluster.name,
      queries           |-> cluster.queries,
      query_count       |-> Len(cluster.queries),
      total_impressions |-> cluster.total_impressions,
      total_clicks      |-> cluster.total_clicks,
      best_position     |-> cluster.best_position,
      current_pages     |-> Take(SetIteration(cluster.pages, seed), 5),
      suggested_action  |-> "Create dedicated page for '" \o cluster.name \o "' topic",
      opportunity_type  |-> "content_gap",
      priority          |-> IF cluster.total_impressions >= 500 THEN "high" ELSE "medium" ]

\* The record of a cluster.  current_pages is list(pages)[:5]: the first
\* five pages in the iteration order of the set.
ContentGapRecord(cluster, seed) ==
    [ cluster_name      |-> cluster.name,
      queries           |-> cluster.queries,
      query_count       |-> Len(cluster.queries),
      total_impressions |-> cluster.total_impressions,
      total_clicks      |-> cluster.total_clicks,
      best_position     |-> cluster.best_position,
      current_pages     |-> Take(SetIteration(cluster.pages, seed), 5),
      suggested_action  |-> "Create dedicated page for '" \o cluster.name \o "' topic",
      opportunity_type  |-> "content_gap",
      priority          |-> IF cluster.total_impressions > 500 THEN "high" ELSE "medium" ]

\* order: the arrangements cluster_keywords meets (IterationOrders of
\* poor_ranking); seed: the hash seed of the process.
get_content_gaps(rows, min_position, min_impressions, min_cluster_size, limit, order, seed) ==
    LET poor_ranking == PoorRanking(rows, min_position, min_impressions)
        clusters == cluster_keywords(poor_ranking, order)
        Enough(cluster) == Len(cluster.queries) >= min_cluster_size
        kept == SelectSeq(clusters, Enough)
        content_gaps == [ i \in DOMAIN kept |-> ContentGapRecord(kept[i], seed) ]
        total == [ i \in DOMAIN content_gaps |-> content_gaps[i].total_impressions ]
    IN  Take(SortDescBy(content_gaps, total), limit)

-----------------------------------------------------------------------------
(* The analysis calls on one row list                                      *)
(* A row is a function from the fields it carries to their values; a       *)
(* query is its sequence of words, a page a string.                        *)

Fields ==
    { "query", "page", "total_clicks", "total_impressions", "avg_ctr", "avg_position" }

\* row.get(field, default)
Get(row, field, default) == IF field \in DOMAIN row THEN row[field] ELSE default

\* What the row.get calls of the detectors read from a row: 0 for an absent
\* number, '' for an absent text.
RowGet(row) ==
    [ query             |-> Get(row, "query", <<>>),
      page              |-> Get(row, "page", ""),
      total_clicks      |-> Get(row, "total_clicks", 0),
      total_impressions |-> Get(row, "total_impressions", 0),
      avg_ctr           |-> Get(row, "avg_ctr", <<0, 1>>),
      avg_position      |-> Get(row, "avg_position", 0) ]

Got(rows) == [ i \in DOMAIN rows |-> RowGet(rows[i]) ]

\* The row without the fields of absent.
Without(row, absent) == [ f \in (DOMAIN row) \ absent |-> row[f] ]

\* row['query'] and row['page'] of get_declining_keywords raise KeyError
\* on a row that lacks the field: in the dict comprehension over
\* previous_data, then in the loop over recent_data.
DecliningRaises(recent_data, previous_data) ==
    \/ \E j \in DOMAIN previous_data : ~({"query", "page"} \subseteq DOMAIN previous_data[j])
    \/ \E i \in DOMAIN recent_data : ~({"query", "page"} \subseteq DOMAIN recent_data[i])

\* Mutant: the list is left holding its first sorted row only.
RowsAfterFirstOnly(rows, search, sort_by, sort_order) ==
    Take(SortRows(rows, sort_by, SortReverse(sort_by, sort_order)), 1)

\* The list object after get_all_keywords: data.sort sorts the list the
\* data store returned, in place, unless a search term has replaced it by
\* a filtered copy.
RowsAfterAllKeywords(rows, search, sort_by, sort_order) ==
    IF search = <<>> THEN SortRows(rows, sort_by, SortReverse(sort_by, sort_order))
    ELSE rows

\* Longest row list of the recent and of the previous window.
MaxDetectorRows == 4

\* The groups of the recent window (also the window of the four detectors
\* that read one window), ORDER BY total_impressions DESC.
RecentGroups ==
    << AggregatedRow(<<"best", "shoes">>, "/y",  5, 1000, 2500),
       AggregatedRow(<<"Shoes", "Red">>,  "/x", 50,  600,  425),
       AggregatedRow(<<"red", "shoes">>,  "/x",  2,  500, 2000),
       AggregatedRow(<<"shoes">>,         "/x",  0,    0,    0) >>

\* The same groups in the previous window.
PreviousGroups ==
    << AggregatedRow(<<"best", "shoes">>, "/y",  60, 1000, 300),
       AggregatedRow(<<"Shoes", "Red">>,  "/x", 200,  600, 300),
       AggregatedRow(<<"red", "shoes">>,  "/x",  49,  500, 300),
       AggregatedRow(<<"shoes">>,         "/x",   0,    0,   0) >>

\* The sub-lists of groups (some groups have no data in the window), of at
\* most MaxDetectorRows rows.
SubLists(groups) ==
    LET pick(S) == [ k \in 1..Cardinality(S) |->
                       groups[CHOOSE i \in S :
                                Cardinality({ j \in S : j < i }) = k - 1] ]
    IN  { pick(S) : S \in { T \in SUBSET DOMAIN groups :
                              Cardinality(T) <= MaxDetectorRows } }

\* Row lists in which one row lacks some of its fields.
PartialLists(groups) ==
    { <<Without(groups[1], absent)>> : absent \in (SUBSET Fields) \ {{}} }
    \cup { <<Without(groups[1], absent), groups[2]>> : absent \in (SUBSET Fields) \ {{}} }
    \cup { <<groups[1], Without(groups[2], absent)>> : absent \in (SUBSET Fields) \ {{}} }

InitDetectors ==
    /\ data \in [ rows : SubLists(RecentGroups) \cup PartialLists(RecentGroups),
                  previous : SubLists(PreviousGroups)
                             \cup { <<Without(PreviousGroups[1], {f})>> :
                                      f \in {"query", "page", "total_clicks"} } ]
    /\ args = [ op |-> "none" ]
    /\ pc = "ready"
    /\ result = <<>>

\* The limits handed to a detector.
Limits == {0, 1, 100}

DetectQuickWins ==
    /\ pc = "ready"
    /\ \E t \in { <<0, 10000, 0>>, <<400, 2500, 100>> }, limit \in Limits :
        /\ args' = [ op |-> "get_quick_wins", min_position |-> t[1],
                     max_position |-> t[2], min_impressions |-> t[3],
                     limit |-> limit ]
        /\ result' = get_quick_wins(Got(data.rows), t[1], t[2], t[3], limit)
    /\ pc' = "done"
    /\ UNCHANGED data

DetectCtrOpportunities ==
    /\ pc = "ready"
    /\ \E t \in { <<10000, 100, 0>>, <<2500, 20, 100>> }, limit \in Limits :
        /\ args' = [ op |-> "get_ctr_opportunities", max_position |-> t[1],
                     max_ctr |-> t[2], min_impressions |-> t[3], limit |-> limit ]
        /\ result' = get_ctr_opportunities(Got(data.rows), t[1], t[2], t[3], limit)
    /\ pc' = "done"
    /\ UNCHANGED data

DetectPagesToExpand ==
    /\ pc = "ready"
    /\ \E min_keywords \in {1, 2}, limit \in Limits :
        /\ args' = [ op |-> "get_pages_to_expand", min_keywords |-> min_keywords,
                     limit |-> limit ]
        /\ result' = get_pages_to_expand(Got(data.rows), min_keywords, limit)
    /\ pc' = "done"
    /\ UNCHANGED data

DetectContentGaps ==
    /\ pc = "ready"
    /\ \E t \in { <<0, 0, 1>>, <<2000, 50, 2>>, <<2000, 50, 1>>, <<400, 50, 2>> },
          limit \in Limits :
        \E order \in IterationOrders(PoorRanking(Got(data.rows), t[1], t[2])),
           seed \in HashSeeds :
            /\ args' = [ op |-> "get_content_gaps", min_position |-> t[1],
                         min_impressions |-> t[2], min_cluster_size |-> t[3],
                         limit |-> limit, order |-> order, seed |-> seed ]
            /\ result' = get_content_gaps(Got(data.rows), t[1], t[2], t[3], limit,
                                          order, seed)
    /\ pc' = "done"
    /\ UNCHANGED data

DetectDeclining ==
    /\ pc = "ready"
    /\ \E t \in { <<0, 0>>, <<50, 3000>> }, limit \in Limits :
        /\ args' = [ op |-> "get_declining_keywords", min_previous_clicks |-> t[1],
                     min_decline_percent |-> t[2], limit |-> limit ]
        /\ IF DecliningRaises(data.rows, data.previous)
           THEN /\ result' = "KeyError"
                /\ pc' = "raised"
           ELSE /\ result' = get_declining_keywords(Got(data.rows), Got(data.previous),
                                                    t[1], t[2], limit)
                /\ pc' = "done"
    /\ UNCHANGED data

\* get_all_keywords without a search term, on a list of complete rows.
ListAllKeywords ==
    /\ pc = "ready"
    /\ \A i \in DOMAIN data.rows : DOMAIN data.rows[i] = Fields
    /\ \E sort_by \in { "impressions", "clicks", "ctr", "position" },
          sort_order \in { "desc", "asc" } :
        /\ args' = [ op |-> "get_all_keywords", search |-> <<>>, sort_by |-> sort_by,
                     sort_order |-> sort_order, page |-> 1, per_page |-> 50 ]
        /\ result' = get_all_keywords(data.rows, <<>>, sort_by, sort_order, 1, 50)
        /\ data' = [ data EXCEPT !.rows =
                       RowsAfterAllKeywords(data.rows, <<>>, sort_by, sort_order) ]
    /\ pc' = "done"

NextDetectors ==
    \/ DetectQuickWins
    \/ DetectCtrOpportunities
    \/ DetectPagesToExpand
    \/ DetectContentGaps
    \/ DetectDeclining
    \/ ListAllKeywords

SpecDetectors == InitDetectors /\ [][NextDetectors]_vars

\* The detectors.
Detectors ==
    { "get_quick_wins", "get_ctr_opportunities", "get_pages_to_expand",
      "get_content_gaps", "get_declining_keywords" }

\* C13: on every row list, rows that lack any of their fields included,
\* each of the five detectors completes without raising and returns a
\* list.
C13_DetectorsComplete ==
    args.op \in Detectors => (pc = "done" /\ DOMAIN result = 1..Len(result))

\* C14: a zero denominator gives the value 0 and no exception.  A quick-win
\* record of position 0 has priority_score 0; a declining record with 0
\* previous clicks has decline_percent 0; a page record averages at least
\* one position; rows with such values are returned when the thresholds
\* admit them; and a call raises only when a row of get_declining_keywords
\* lacks its query or its page.
C14_ZeroDenominators ==
    /\ pc = "raised" =>
           /\ args.op = "get_declining_keywords"
           /\ DecliningRaises(data.rows, data.previous)
    /\ (pc = "done" /\ args.op = "get_quick_wins") =>
           /\ \A k \in DOMAIN result :
                  result[k].position = 0 => result[k].priority_score = 0
           /\ (args.min_position = 0 /\ args.min_impressions = 0 /\ args.limit = 100) =>
                  \A i \in DOMAIN data.rows :
                      RowGet(data.rows[i]).avg_position = 0 =>
                          \E k \in DOMAIN result :
                              /\ result[k].query = RowGet(data.rows[i]).query
                              /\ result[k].page = RowGet(data.rows[i]).page
                              /\ result[k].priority_score = 0
    /\ (pc = "done" /\ args.op = "get_declining_keywords") =>
           /\ \A k \in DOMAIN result :
                  result[k].previous_clicks = 0 => result[k].decline_percent = 0
           /\ (args.min_previous_clicks = 0 /\ args.min_decline_percent = 0
               /\ args.limit = 100) =>
                  \A j \in DOMAIN data.previous :
                      (/\ RowGet(data.previous[j]).total_clicks = 0
                       /\ WindowRows(data.rows, data.previous[j]) # {}) =>
                          \E k \in DOMAIN result :
                              /\ result[k].query = data.previous[j].query
                              /\ result[k].page = data.previous[j].page
                              /\ result[k].previous_clicks = 0
                              /\ result[k].decline_percent = 0
    /\ (pc = "done" /\ args.op = "get_pages_to_expand") =>
           \A k \in DOMAIN result :
               LET positions == PageEntry(Got(data.rows), result[k].page).positions
               IN  /\ Len(positions) >= 1
                   /\ Sum(positions) = 0 => result[k].avg_position = 0

\* A declining record of a pair that had no click in the previous window
\* and has 5 now.
C14_Witness ==
    /\ pc = "done"
    /\ args.op = "get_declining_keywords"
    /\ \E k \in DOMAIN result :
           /\ result[k].previous_clicks = 0
           /\ result[k].current_clicks = 5
           /\ result[k].decline = -5
           /\ result[k].decline_percent = 0

\* The number of elements of s equal to x.
Count(s, x) == Cardinality({ i \in DOMAIN s : s[i] = x })

\* The claim as worded: no analysis call changes the row list, the order
\* of its rows included.
C16_AsStated == [][data' = data]_vars

\* C16: every analysis call leaves in the row list the rows it held, each
\* as often as before and with the same field values; the five detectors
\* (cluster_keywords within get_content_gaps) also leave them in the same
\* order, while get_all_keywords without a search term leaves the list
\* sorted by its sort key.
C16_RowsKept ==
    [][ /\ data'.previous = data.previous
        /\ Len(data'.rows) = Len(data.rows)
        /\ \A i \in DOMAIN data.rows :
               Count(data'.rows, data.rows[i]) = Count(data.rows, data.rows[i])
        /\ args'.op \in Detectors => data' = data
        /\ args'.op = "get_all_keywords" =>
               data'.rows = SortRows(data.rows, args'.sort_by,
                                     SortReverse(args'.sort_by, args'.sort_order)) ]_vars

\* After get_all_keywords sorted by clicks, the list the data store
\* returned in the order of its impressions is in another order.
C16_Witness ==
    /\ pc = "done"
    /\ args.op = "get_all_keywords"
    /\ Len(data.rows) = 4
    /\ data.rows[1].total_impressions < data.rows[2].total_impressions

\* The sort key of a record of the detector op.
SortKeyOf(op, x) ==
    CASE op = "get_quick_wins"         -> x.priority_score
      [] op = "get_ctr_opportunities"  -> x.ctr_gap
      [] op = "get_pages_to_expand"    -> x.keyword_count
      [] op = "get_content_gaps"       -> x.total_impressions
      [] op = "get_declining_keywords" -> x.decline

\* Every record that qualifies under the thresholds of the call made: the
\* detector's list when the limit is the number of rows.
AllQualifying ==
    LET rows == Got(data.rows)
        n == Len(rows)
    IN  CASE args.op = "get_quick_wins" ->
                get_quick_wins(rows, args.min_position, args.max_position,
                               args.min_impressions, n)
          [] args.op = "get_ctr_opportunities" ->
                get_ctr_opportunities(rows, args.max_position, args.max_ctr,
                                      args.min_impressions, n)
          [] args.op = "get_pages_to_expand" ->
                get_pages_to_expand(rows, args.min_keywords, n)
          [] args.op = "get_content_gaps" ->
                get_content_gaps(rows, args.min_position, args.min_impressions,
                                 args.min_cluster_size, n, args.order, args.seed)
          [] args.op = "get_declining_keywords" ->
                get_declining_keywords(rows, Got(data.previous),
                                       args.min_previous_clicks,
                                       args.min_decline_percent, n)

\* C17: for every detector and limit >= 0 the returned list has at most
\* limit records (all qualifying records when there are no more than
\* limit), is in non-increasing order of the detector's sort key, and the
\* qualifying records left out have no sort key greater than that of a
\* returned record.
C17_SortedAndTruncated ==
    (pc = "done" /\ args.op \in Detectors) =>
        LET all == AllQualifying
            key(x) == SortKeyOf(args.op, x)
        IN  /\ Len(result) = Min(args.limit, Len(all))
            /\ \A k, l \in DOMAIN result : k < l => key(result[k]) >= key(result[l])
            /\ \A k \in DOMAIN result : Count(all, result[k]) >= Count(result, result[k])
            /\ \A i \in DOMAIN all :
                   Count(result, all[i]) < Count(all, all[i]) =>
                       \A k \in DOMAIN result : key(all[i]) <= key(result[k])

\* Four rows qualify as quick wins with the scores 40, 141.18, 25 and 0 in
\* the order of the rows; limit 1 returns the one of score 141.18.
C17_Witness ==
    /\ pc = "done"
    /\ args.op = "get_quick_wins"
    /\ args.limit = 1
    /\ Len(AllQualifying) = 4
    /\ Len(result) = 1
    /\ result[1].priority_score = 14118
    /\ RowGet(data.rows[1]).total_impressions = 1000

-----------------------------------------------------------------------------
(* get_opportunity_summary and generate_action_list                        *)

\* The field of every record of a list.
FieldOf(records, field) == [ i \in DOMAIN records |-> records[i][field] ]

\* The dict get_opportunity_summary returns, from the lists of the five
\* detectors (each called with limit=10).
OpportunitySummary(quick_wins, ctr_opps, pages_expand, content_gaps, declining) ==
    [ quick_wins          |-> [ count            |-> Len(quick_wins),
                                top_items        |-> Take(quick_wins, 5),
                                potential_clicks |-> Sum(FieldOf(quick_wins, "click_uplift")) ],
      ctr_opportunities   |-> [ count            |-> Len(ctr_opps),
                                top_items        |-> Take(ctr_opps, 5),
                                potential_clicks |-> Sum(FieldOf(ctr_opps, "click_uplift")) ],
      pages_to_expand     |-> [ count     |-> Len(pages_expand),
                                top_items |-> Take(pages_expand, 5) ],
      content_gaps        |-> [ count             |-> Len(content_gaps),
                                top_items         |-> Take(content_gaps, 5),
                                total_impressions |-> Sum(FieldOf(content_gaps, "total_impressions")) ],
      declining_keywords  |-> [ count         |-> Len(declining),
                                top_items     |-> Take(declining, 5),
                                total_decline |-> Sum(FieldOf(declining, "decline")) ],
      total_opportunities |-> Len(quick_wins) + Len(ctr_opps) + Len(pages_expand)
                              + Len(content_gaps) + Len(declining) ]

\* An f-string is kept as the sequence of its literal parts and values.
QuickWinAction(kw, priority) ==
    [ priority         |-> priority,
      type             |-> "Quick Win",
      query            |-> kw.query,
      page             |-> kw.page,
      action           |-> <<"Optimize content for '", kw.query,
                             "' - currently position ", kw.position>>,
      potential_impact |-> <<"+", kw.click_uplift, " clicks">>,
      metrics          |-> <<"Position: ", kw.position, ", Impressions: ", kw.impressions>> ]

CtrAction(kw, priority) ==
    [ priority         |-> priority,
      type             |-> "CTR Optimization",
      query            |-> kw.query,
      page             |-> kw.page,
      action           |-> <<"Improve title/description for '", kw.query,
                             "' - CTR only ", kw.ctr, "%">>,
      potential_impact |-> <<"+", kw.click_uplift, " clicks">>,
      metrics          |-> <<"Position: ", kw.position, ", CTR: ", kw.ctr,
                             "%, Expected: ", kw.expected_ctr, "%">> ]

ContentGapAction(gap, priority) ==
    [ priority         |-> priority,
      type             |-> "Content Gap",
      query            |-> gap.cluster_name,
      page             |-> "New page needed",
      action           |-> <<"Create new content for '", gap.cluster_name, "' cluster">>,
      potential_impact |-> <<gap.total_impressions, " impressions available">>,
      metrics          |-> <<"Queries: ", gap.query_count, ", Best position: ",
                             gap.best_position>> ]

\* Mutant: every group is numbered from 1.
ActionListRestart(quick_wins, ctr_opps, content_gaps) ==
    [ i \in DOMAIN quick_wins |-> QuickWinAction(quick_wins[i], i) ]
    \o [ i \in DOMAIN ctr_opps |-> CtrAction(ctr_opps[i], i) ]
    \o [ i \in DOMAIN content_gaps |-> ContentGapAction(content_gaps[i], i) ]

\* The list generate_action_list returns, from the lists of the three
\* detectors it calls (limit=10, 5 and 5).
ActionList(quick_wins, ctr_opps, content_gaps) ==
    [ i \in DOMAIN quick_wins |-> QuickWinAction(quick_wins[i], i) ]
    \o [ i \in DOMAIN ctr_opps |-> CtrAction(ctr_opps[i], Len(quick_wins) + i) ]
    \o [ i \in DOMAIN content_gaps |->
           ContentGapAction(content_gaps[i], Len(quick_wins) + Len(ctr_opps) + i) ]

\* Largest number of groups in the data store.
MaxStoreRows == 55

\* The word sets of the poorly ranking queries.
WordSets ==
    << <<"best", "blue">>, <<"best", "nike">>, <<"best", "red">>, <<"best", "shoes">>,
       <<"blue", "nike">>, <<"blue", "red">>, <<"blue", "shoes">>, <<"nike", "red">>,
       <<"nike", "shoes">>, <<"red", "shoes">>, <<"best", "blue", "nike">>,
       <<"best", "red", "shoes">> >>

Reverse(s) == [ i \in DOMAIN s |-> s[Len(s) + 1 - i] ]

\* The k-th group of the store, by total_impressions descending.  Of five
\* consecutive groups one ranks in the top 3 with a low CTR, one ranks
\* between 4 and 20, and three rank at 20 or worse; the pages are 11.
StoreQuery(k) ==
    LET j == Cardinality({ i \in 1..k : i % 5 \notin {1, 3} })
        words == WordSets[((j - 1) % Len(WordSets)) + 1]
        variant == (j - 1) \div Len(WordSets)
    IN  IF k % 5 \in {1, 3} THEN <<"kw" \o ToString(k)>>
        ELSE IF variant % 3 = 0 THEN words
        ELSE IF variant % 3 = 1 THEN Reverse(words)
        ELSE <<"the">> \o words

StorePosition(k) ==
    LET c == k \div 5
    IN  IF k % 5 = 1 THEN <<100, 150, 250, 300>>[(c % 4) + 1]
        ELSE IF k % 5 = 3 THEN <<430, 800, 1250, 2000, 400>>[(c % 5) + 1]
        ELSE <<2000, 2500, 4000, 12000>>[((c + k) % 4) + 1]

StoreRow(k) ==
    AggregatedRow(StoreQuery(k), "/p" \o ToString(k % 11), (7 * k) % 40,
                  2000 - 20 * k, StorePosition(k))

\* The group of StoreRow(k) in the previous window.
StorePreviousRow(k) ==
    AggregatedRow(StoreQuery(k), "/p" \o ToString(k % 11), 60 + 3 * k, 1000, 300)

\* The store with its n first groups; the odd ones have data in the
\* previous window.  The requested date range is the recent window.
Store(n) ==
    LET odd == { k \in 1..n : k % 2 = 1 }
    IN  [ rows     |-> [ k \in 1..n |-> StoreRow(k) ],
          previous |-> [ i \in 1..Cardinality(odd) |-> StorePreviousRow(2 * i - 1) ] ]

\* The exceptions that leave db.get_aggregated_data: get_connection finds
\* no pool; the query fails and get_connection rolls back and re-raises;
\* or the rollback fails in turn and its exception is the one that leaves.
DbErrors == { "Database not configured", "OperationalError", "InterfaceError" }

\* What one invocation of db.get_aggregated_data can do when the store
\* holds rows for the requested range.
DbOutcomes(rows) ==
    { [ ok |-> TRUE, rows |-> rows, error |-> "none" ] }
    \cup { [ ok |-> FALSE, rows |-> <<>>, error |-> e ] : e \in DbErrors }

\* Mutant: a failed invocation is taken for an empty row list.
RaisesNever(outcome) == FALSE

\* The invocation raises: the analyzer has no try/except, so the exception
\* leaves the function that made the invocation and its callers.
Raises(outcome) == ~outcome.ok

\* Mutant: get_opportunity_summary runs get_ctr_opportunities first.
FetchPlanSwapped(op) ==
    CASE op = "get_quick_wins"          -> <<"quick_wins">>
      [] op = "get_ctr_opportunities"   -> <<"ctr_opps">>
      [] op = "get_pages_to_expand"     -> <<"pages_expand">>
      [] op = "get_content_gaps"        -> <<"content_gaps">>
      [] op = "get_declining_keywords"  -> <<"recent", "previous">>
      [] op = "get_opportunity_summary" ->
            <<"ctr_opps", "quick_wins", "pages_expand", "content_gaps",
              "recent", "previous">>
      [] op = "generate_action_list"    -> <<"quick_wins", "ctr_opps", "content_gaps">>

\* The invocations of db.get_aggregated_data a call makes, in order.
FetchPlan(op) ==
    CASE op = "get_quick_wins"          -> <<"quick_wins">>
      [] op = "get_ctr_opportunities"   -> <<"ctr_opps">>
      [] op = "get_pages_to_expand"     -> <<"pages_expand">>
      [] op = "get_content_gaps"        -> <<"content_gaps">>
      [] op = "get_declining_keywords"  -> <<"recent", "previous">>
      [] op = "get_opportunity_summary" ->
            <<"quick_wins", "ctr_opps", "pages_expand", "content_gaps",
              "recent", "previous">>
      [] op = "generate_action_list"    -> <<"quick_wins", "ctr_opps", "content_gaps">>

\* Mutant: every detector is called with its default limit.
LimitDefault(op, label) == 100

\* The limit a call hands to a detector; 100 is the detector's default.
LimitOf(op, label) ==
    CASE op = "get_opportunity_summary" -> 10
      [] op = "generate_action_list"    -> IF label = "quick_wins" THEN 10 ELSE 5
      [] OTHER                          -> 100

\* The local variables after the invocation `label` returned rows: one
\* list per detector finished, get_declining_keywords holding recent_data
\* until previous_data arrives.  Thresholds are the defaults.
AfterFetch(op, label, locals, rows, order, seed) ==
    LET limit == LimitOf(op, label)
    IN  CASE label = "quick_wins"   -> Append(locals, get_quick_wins(rows, 400, 2000, 100, limit))
          [] label = "ctr_opps"     -> Append(locals, get_ctr_opportunities(rows, 300, 20, 50, limit))
          [] label = "pages_expand" -> Append(locals, get_pages_to_expand(rows, 5, limit))
          [] label = "content_gaps" ->
                Append(locals, get_content_gaps(rows, 2000, 50, 2, limit, order, seed))
          [] label = "recent"       -> Append(locals, rows)
          [] label = "previous"     ->
                Append(SubSeq(locals, 1, Len(locals) - 1),
                       get_declining_keywords(locals[Len(locals)], rows, 50, 3000, limit))

\* The value the call returns once its detectors have finished.
Finish(op, locals) ==
    CASE op = "get_opportunity_summary" ->
            OpportunitySummary(locals[1], locals[2], locals[3], locals[4], locals[5])
      [] op = "generate_action_list" -> ActionList(locals[1], locals[2], locals[3])
      [] OTHER -> locals[1]

InitAnalysis ==
    /\ data \in { Store(n) : n \in 0..MaxStoreRows }
    /\ args = [ op |-> "none", step |-> 0, calls |-> 0, db_error |-> "none" ]
    /\ pc = "ready"
    /\ result = <<>>

\* A detector, get_opportunity_summary or generate_action_list is called.
CallAnalysis ==
    /\ pc = "ready"
    /\ \E op \in Detectors \cup { "get_opportunity_summary", "generate_action_list" } :
        args' = [ op |-> op, step |-> 1, calls |-> 0, db_error |-> "none" ]
    /\ pc' = "running"
    /\ result' = <<>>
    /\ UNCHANGED data

\* The call makes its next invocation of db.get_aggregated_data and runs
\* on to the following invocation, to its last statement or to the
\* exception.
Fetch ==
    /\ pc = "running"
    /\ args.step <= Len(FetchPlan(args.op))
    /\ LET label == FetchPlan(args.op)[args.step]
           stored == IF label = "previous" THEN data.previous ELSE data.rows
       IN  \E outcome \in DbOutcomes(stored) :
           \E order \in IterationOrders(PoorRanking(outcome.rows, 2000, 50)),
              seed \in HashSeeds :
               /\ args' = [ args EXCEPT !.step = @ + 1, !.calls = @ + 1,
                                        !.db_error = IF outcome.ok THEN @
                                                     ELSE outcome.error ]
               /\ IF Raises(outcome)
                  THEN /\ pc' = "raised"
                       /\ result' = [ error |-> outcome.error ]
                  ELSE /\ pc' = "running"
                       /\ result' = AfterFetch(args.op, label, result,
                                               outcome.rows, order, seed)
    /\ UNCHANGED data

\* The call builds its return value from the lists of its detectors.
Return ==
    /\ pc = "running"
    /\ args.step > Len(FetchPlan(args.op))
    /\ result' = Finish(args.op, result)
    /\ pc' = "done"
    /\ UNCHANGED <<data, args>>

NextAnalysis == CallAnalysis \/ Fetch \/ Return

SpecAnalysis == InitAnalysis /\ [][NextAnalysis]_vars


(***************************************************************************)
(* C15: when an invocation of get_aggregated_data fails during a detector, *)
(* get_opportunity_summary or generate_action_list, the call ends with     *)
(* that same failure, what it hands back is the failure alone and none of  *)
(* the lists already built, and no invocation of get_aggregated_data       *)
(* follows the failed one.                                                 *)
(***************************************************************************)
C15_FailurePropagates ==
    [][ /\ (args'.db_error # "none") =>
              /\ pc' = "raised"
              /\ result' = [ error |-> args'.db_error ]
        /\ (args.db_error # "none") =>
              /\ args'.calls = args.calls
              /\ pc' = "raised" ]_vars

\* get_opportunity_summary on the full store fails at its fourth
\* invocation, three detectors having finished and two not yet run.
C15_Witness ==
    /\ pc = "raised"
    /\ args.op = "get_opportunity_summary"
    /\ args.calls = 4
    /\ args.calls < Len(FetchPlan(args.op))
    /\ result = [ error |-> "OperationalError" ]
    /\ Len(data.rows) = MaxStoreRows


(***************************************************************************)
(* C18: in the list generate_action_list returns, the entry at 0-based     *)
(* index i has priority i+1 (priorities are 1..len(list), without gap or   *)
(* duplicate); the Quick Win entries (at most 10) come first, then the     *)
(* CTR Optimization entries (at most 5), then the Content Gap entries (at  *)
(* most 5); and each group is in the order of its detector's output.       *)
(* Stated on the returning step: before it `result` holds the three        *)
(* detector lists, after it the returned list.                             *)
(***************************************************************************)
C18_ActionListOrder ==
    [][ (pc = "running" /\ pc' = "done" /\ args.op = "generate_action_list") =>
          LET quick_wins   == result[1]
              ctr_opps     == result[2]
              content_gaps == result[3]
              actions      == result'
          IN  /\ Len(quick_wins) <= 10 /\ Len(ctr_opps) <= 5 /\ Len(content_gaps) <= 5
              /\ DOMAIN actions
                   = 1..(Len(quick_wins) + Len(ctr_opps) + Len(content_gaps))
              /\ \A i \in DOMAIN actions : actions[i].priority = i
              /\ \A i \in DOMAIN quick_wins :
                    /\ actions[i].type = "Quick Win"
                    /\ actions[i].query = quick_wins[i].query
                    /\ actions[i].page = quick_wins[i].page
                    /\ actions[i].potential_impact[2] = quick_wins[i].click_uplift
              /\ \A i \in DOMAIN ctr_opps :
                    LET a == actions[Len(quick_wins) + i]
                    IN  /\ a.type = "CTR Optimization"
                        /\ a.query = ctr_opps[i].query
                        /\ a.page = ctr_opps[i].page
                        /\ a.potential_impact[2] = ctr_opps[i].click_uplift
              /\ \A i \in DOMAIN content_gaps :
                    LET a == actions[Len(quick_wins) + Len(ctr_opps) + i]
                    IN  /\ a.type = "Content Gap"
                        /\ a.query = content_gaps[i].cluster_name
                        /\ a.potential_impact[1] = content_gaps[i].total_impressions
      ]_vars

\* generate_action_list has returned 20 entries from the full store, where
\* more than 10 quick wins, 5 CTR opportunities and 5 content gaps qualify.
C18_Witness ==
    /\ pc = "done"
    /\ args.op = "generate_action_list"
    /\ Len(data.rows) = MaxStoreRows
    /\ Len(result) = 20
    /\ result[10].type = "Quick Win"
    /\ result[11].type = "CTR Optimization"
    /\ result[16].type = "Content Gap"
    /\ result[20].priority = 20


\* Formula helper: the limit-10 slice is the head of what qualifies.
SliceOf(slice, qualifying) == slice = SubSeq(qualifying, 1, Min(10, Len(qualifying)))

\* Formula helper: count and top_items of one category of the summary.
CountAndTop(category, slice) ==
    /\ category.count = Len(slice)
    /\ category.count <= 10
    /\ category.top_items = SubSeq(slice, 1, Min(5, category.count))

(***************************************************************************)
(* C19: in get_opportunity_summary each category's count is the length of  *)
(* the detector's limit-10 slice (so at most 10), top_items is the first   *)
(* min(5, count) records of that slice, potential_clicks /                 *)
(* total_impressions / total_decline is the sum of the field over that     *)
(* slice only, and total_opportunities is the sum of the five counts.      *)
(* Stated on the returning step: before it `result` holds the five         *)
(* detector lists, after it the returned dict; what qualifies is the       *)
(* detector's output under a limit no store reaches.                       *)
(***************************************************************************)
C19_SummaryOverSlice ==
    [][ (pc = "running" /\ pc' = "done" /\ args.op = "get_opportunity_summary") =>
          LET summary == result'
          IN  /\ SliceOf(result[1], get_quick_wins(data.rows, 400, 2000, 100, 100))
              /\ SliceOf(result[2], get_ctr_opportunities(data.rows, 300, 20, 50, 100))
              /\ SliceOf(result[3], get_pages_to_expand(data.rows, 5, 100))
              /\ \E order \in IterationOrders(PoorRanking(data.rows, 2000, 50)),
                    seed \in HashSeeds :
                    SliceOf(result[4],
                            get_content_gaps(data.rows, 2000, 50, 2, 100, order, seed))
              /\ SliceOf(result[5],
                         get_declining_keywords(data.rows, data.previous, 50, 3000, 100))
              /\ CountAndTop(summary.quick_wins, result[1])
              /\ CountAndTop(summary.ctr_opportunities, result[2])
              /\ CountAndTop(summary.pages_to_expand, result[3])
              /\ CountAndTop(summary.content_gaps, result[4])
              /\ CountAndTop(summary.declining_keywords, result[5])
              /\ summary.quick_wins.potential_clicks
                   = Sum([ i \in DOMAIN result[1] |-> result[1][i].click_uplift ])
              /\ summary.ctr_opportunities.potential_clicks
                   = Sum([ i \in DOMAIN result[2] |-> result[2][i].click_uplift ])
              /\ summary.content_gaps.total_impressions
                   = Sum([ i \in DOMAIN result[4] |-> result[4][i].total_impressions ])
              /\ summary.declining_keywords.total_decline
                   = Sum([ i \in DOMAIN result[5] |-> result[5][i].decline ])
              /\ summary.total_opportunities
                   = summary.quick_wins.count + summary.ctr_opportunities.count
                     + summary.pages_to_expand.count + summary.content_gaps.count
                     + summary.declining_keywords.count
      ]_vars

\* get_opportunity_summary has returned on the full store: every count is
\* 10 and the quick-win uplift reported is less than that of all the
\* qualifying rows.
C19_Witness ==
    /\ pc = "done"
    /\ args.op = "get_opportunity_summary"
    /\ Len(data.rows) = MaxStoreRows
    /\ result.total_opportunities = 50
    /\ result.quick_wins.count = 10
    /\ Len(result.quick_wins.top_items) = 5
    /\ LET qualifying == get_quick_wins(data.rows, 400, 2000, 100, 100)
       IN  /\ Len(qualifying) > 10
           /\ result.quick_wins.potential_clicks
                < Sum([ i \in DOMAIN qualifying |-> qualifying[i].click_uplift ])


(***************************************************************************)
(* The date ranges of get_declining_keywords.  A datetime is the number of *)
(* its day, counted from 1970-01-01, with the second of the day; a date of *)
(* the store is the text 'YYYY-MM-DD', a sequence of characters, and the   *)
(* store compares texts.                                                   *)
(***************************************************************************)

\* Largest comparison_months called with.
MaxComparisonMonths == 3

\* Number of days `now` ranges over, and the first of them (2024-02-20:
\* the ranges reach over 2024-02-29 and back into 2023).
MaxNowDays == 40
FirstNowDay == 19773

\* The proleptic Gregorian date <<year, month, day>> of a day number.
CivilDate(day) ==
    LET z   == day + 719468
        era == z \div 146097
        doe == z - era * 146097
        yoe == (doe - (doe \div 1460) + (doe \div 36524) - (doe \div 146096)) \div 365
        doy == doe - (365 * yoe + (yoe \div 4) - (yoe \div 100))
        mp  == (5 * doy + 2) \div 153
        d   == doy - ((153 * mp + 2) \div 5) + 1
        m   == IF mp < 10 THEN mp + 3 ELSE mp - 9
    IN  << yoe + era * 400 + (IF m <= 2 THEN 1 ELSE 0), m, d >>

\* The characters of a date text, with their code points.
DateCodePoint ==
    ("-" :> 45) @@ ("0" :> 48) @@ ("1" :> 49) @@ ("2" :> 50) @@ ("3" :> 51) @@
    ("4" :> 52) @@ ("5" :> 53) @@ ("6" :> 54) @@ ("7" :> 55) @@ ("8" :> 56) @@
    ("9" :> 57)

\* The decimal digit n as a character.
Digit(n) == CHOOSE c \in DOMAIN DateCodePoint : DateCodePoint[c] = 48 + n

\* n in `width` digits, padded with zeros.
Padded(n, width) ==
    [ i \in 1..width |-> Digit((n \div (10 ^ (width - i))) % 10) ]

\* datetime.strftime('%Y-%m-%d'): the second of the day is dropped.
Strftime(t) ==
    LET date == CivilDate(t.day)
    IN  Padded(date[1], 4) \o <<"-">> \o Padded(date[2], 2) \o <<"-">> \o Padded(date[3], 2)

\* datetime - timedelta(days=n)
MinusDays(t, n) == [ t EXCEPT !.day = @ - n ]

\* a <= b on TEXT values: code point order, a prefix first.
TextLessEq(a, b) ==
    \/ a = b
    \/ \E k \in 1..Len(b) :
          /\ k <= Len(a) + 1
          /\ \A i \in 1..(k - 1) : a[i] = b[i]
          /\ k = Len(a) + 1 \/ DateCodePoint[a[k]] < DateCodePoint[b[k]]

\* The dates of the store that satisfy date >= start_date AND date <= end_date.
DatesInRange(dates, start_date, end_date) ==
    { date \in dates : TextLessEq(start_date, date) /\ TextLessEq(date, end_date) }

\* recent_end, recent_start, previous_end and previous_start.
RecentEnd(now) == MinusDays(now, 3)
RecentStart(now) == MinusDays(RecentEnd(now), 30)
PreviousEnd(recent_start, comparison_months) ==
    MinusDays(recent_start, 30 * (comparison_months - 1))
PreviousStart(previous_end) == MinusDays(previous_end, 30)

\* The days the store has rows for: every day any range can reach.
StoreDays ==
    (FirstNowDay - 63 - 30 * MaxComparisonMonths - 7)..(FirstNowDay + MaxNowDays + 7)

InitWindows ==
    /\ data = { Strftime([ day |-> d, second |-> 0 ]) : d \in StoreDays }
    /\ \E d \in FirstNowDay..(FirstNowDay + MaxNowDays - 1), s \in {0, 86399},
          comparison_months \in 1..MaxComparisonMonths :
          args = [ now |-> [ day |-> d, second |-> s ],
                   comparison_months |-> comparison_months ]
    /\ pc = "ready"
    /\ result = [ recent |-> {}, previous |-> {} ]

\* datetime.now() is read, the four datetimes are computed and the recent
\* range is queried.
QueryRecent ==
    /\ pc = "ready"
    /\ LET recent_end   == RecentEnd(args.now)
           recent_start == RecentStart(args.now)
       IN  result' = [ result EXCEPT
                         !.recent = DatesInRange(data, Strftime(recent_start),
                                                 Strftime(recent_end)) ]
    /\ pc' = "recent"
    /\ UNCHANGED <<data, args>>

\* The previous range is queried.
QueryPrevious ==
    /\ pc = "recent"
    /\ LET previous_end   == PreviousEnd(RecentStart(args.now), args.comparison_months)
           previous_start == PreviousStart(previous_end)
       IN  result' = [ result EXCEPT
                         !.previous = DatesInRange(data, Strftime(previous_start),
                                                   Strftime(previous_end)) ]
    /\ pc' = "done"
    /\ UNCHANGED <<data, args>>

NextWindows == QueryRecent \/ QueryPrevious

SpecWindows == InitWindows /\ [][NextWindows]_vars

\* Formula helper: the dates of the days first..last.
DatesOfDays(first, last) == { Strftime([ day |-> d, second |-> 0 ]) : d \in first..last }

(***************************************************************************)
(* C20: for every comparison_months >= 1 and every `now`, no calendar date *)
(* satisfies both of the inclusive ranges get_declining_keywords queries;  *)
(* each range is 30 days wide; the recent one ends 3 days before now; the  *)
(* previous one ends 30 * (comparison_months - 1) days before the start of *)
(* the recent one.                                                         *)
(***************************************************************************)
C20_Windows ==
    pc = "done" =>
        LET recent_end   == args.now.day - 3
            recent_start == recent_end - 30
            previous_end == recent_start - 30 * (args.comparison_months - 1)
        IN  /\ result.recent = DatesOfDays(recent_start, recent_end)
            /\ result.previous = DatesOfDays(previous_end - 30, previous_end)
            /\ result.recent \cap result.previous = {}

\* The parts of C20 about the ends and the widths of the ranges.
C20_EndsAndWidths ==
    pc = "done" =>
        LET recent_end   == args.now.day - 3
            recent_start == recent_end - 30
            previous_end == recent_start - 30 * (args.comparison_months - 1)
        IN  /\ result.recent = DatesOfDays(recent_start, recent_end)
            /\ result.previous = DatesOfDays(previous_end - 30, previous_end)

\* The ranges share no date when comparison_months is 2 or more, and share
\* exactly the first date of the recent range when it is 1.
C20_SharedDate ==
    pc = "done" =>
        result.recent \cap result.previous
          = IF args.comparison_months >= 2 THEN {}
            ELSE { Strftime(RecentStart(args.now)) }


\* Formula helper: the stored row a formatted record was made from.
SourceRow(x) ==
    data[CHOOSE i \in DOMAIN data : data[i].query = x.query /\ data[i].page = x.page]

\* Formula helper: x's key is below y's, for the key the claim names.
KeyBelow(sort_by, x, y) ==
    CASE sort_by = "clicks"   -> x.total_clicks < y.total_clicks
      [] sort_by = "ctr"      -> x.avg_ctr[1] * y.avg_ctr[2] < y.avg_ctr[1] * x.avg_ctr[2]
      [] sort_by = "position" -> x.avg_position < y.avg_position
      [] sort_by = "query"    -> StrLess(Lower(x.query), Lower(y.query))
      [] sort_by = "impressions" -> x.total_impressions < y.total_impressions
      [] OTHER                -> x.total_impressions < y.total_impressions

(***************************************************************************)
(* C21: get_all_keywords orders the filtered rows by the requested key.    *)
(* For sort_by impressions, clicks, ctr or query, 'desc' gives a           *)
(* non-increasing and 'asc' a non-decreasing key; for sort_by position the *)
(* direction is inverted ('desc' gives non-decreasing avg_position, 'asc'  *)
(* non-increasing); an unrecognised sort_by orders by impressions.         *)
(***************************************************************************)
C21_SortOrder ==
    pc = "done" =>
        LET all == Concat(result.slices)
            NonIncreasing == \A k, l \in DOMAIN all :
                k < l => ~KeyBelow(args.sort_by, SourceRow(all[k]), SourceRow(all[l]))
            NonDecreasing == \A k, l \in DOMAIN all :
                k < l => ~KeyBelow(args.sort_by, SourceRow(all[l]), SourceRow(all[k]))
        IN  IF args.sort_by = "position"
            THEN /\ args.sort_order = "desc" => NonDecreasing
                 /\ args.sort_order = "asc" => NonIncreasing
            ELSE /\ args.sort_order = "desc" => NonIncreasing
                 /\ args.sort_order = "asc" => NonDecreasing

\* All pages of a listing by position, 'desc', have been fetched: three rows
\* or more, the first with a strictly lower avg_position than the last.
C21_Witness ==
    /\ pc = "done"
    /\ args.sort_by = "position"
    /\ args.sort_order = "desc"
    /\ LET all == Concat(result.slices)
       IN  /\ Len(all) >= 3
           /\ SourceRow(all[1]).avg_position < SourceRow(all[Len(all)]).avg_position
           /\ SourceRow(all[1]).total_impressions
                < SourceRow(all[Len(all)]).total_impressions


(***************************************************************************)
(* C22: every content gap get_content_gaps returns is a cluster with       *)
(* query_count = len(queries) >= min_cluster_size, whose member queries    *)
(* all come from rows with avg_position >= min_position and                *)
(* total_impressions >= min_impressions, and whose priority is 'high'      *)
(* exactly when its total_impressions > 500, 'medium' otherwise.           *)
(***************************************************************************)
C22_ContentGapSelection ==
    (pc = "done" /\ args.op = "get_content_gaps") =>
        \A i \in DOMAIN result :
            LET gap == result[i]
            IN  /\ gap.query_count = Len(gap.queries)
                /\ gap.query_count >= args.min_cluster_size
                /\ \A k \in DOMAIN gap.queries :
                       \E j \in DOMAIN data.rows :
                           LET row == RowGet(data.rows[j])
                           IN  /\ row.query = gap.queries[k].query
                               /\ row.avg_position = gap.queries[k].position
                               /\ row.total_impressions = gap.queries[k].impressions
                               /\ row.avg_position >= args.min_position
                               /\ row.total_impressions >= args.min_impressions
                /\ gap.priority \in { "high", "medium" }
                /\ gap.priority = "high" <=> gap.total_impressions > 500

\* A cluster of exactly 500 impressions is returned with priority medium
\* beside one labelled high, while other rows of the list fail the filter.
C22_Witness ==
    /\ pc = "done"
    /\ args.op = "get_content_gaps"
    /\ args.min_position = 2000
    /\ Len(data.rows) = MaxDetectorRows
    /\ Len(result) = 2
    /\ result[1].priority = "high"
    /\ result[2].priority = "medium"
    /\ result[2].total_impressions = 500
    /\ \E j \in DOMAIN data.rows : RowGet(data.rows[j]).avg_position < args.min_position

\* Two of three poorly ranking rows form the one cluster of two queries that
\* is returned; the cluster of the third has one query and is left out.
C22_SizeWitness ==
    /\ pc = "done"
    /\ args.op = "get_content_gaps"
    /\ args.min_cluster_size = 2
    /\ Len(result) = 1
    /\ result[1].query_count = 2
    /\ Len(PoorRanking(Got(data.rows), args.min_position, args.min_impressions)) = 3


-----------------------------------------------------------------------------
(* Two runs on one row list                                                *)
(* get_content_gaps or cluster_keywords is run twice on the same row list  *)
(* with the same thresholds; the second run may be in another process, so  *)
(* its hash seed and the arrangements its sets take are chosen afresh.     *)

\* Largest number of pages one query is stored with.
MaxRunPages == 6

\* The stored groups of a query on n pages ...
RunPageRows(n) ==
    [ i \in 1..n |->
        AggregatedRow(<<"red", "shoes">>, "/p" \o ToString(i - 1), n - i,
                      100 * (n - i + 2), 2500) ]

\* ... and those of a query of four significant words, three of them of
\* one length, on m pages.
RunLongRows(m) ==
    [ i \in 1..m |->
        AggregatedRow(<<"best", "nike", "blue", "shoes">>, "/p" \o ToString(i - 1),
                      1, 100 - 10 * i, 3000) ]

\* The row lists of the store, ORDER BY total_impressions DESC.
RunLists ==
    { RunPageRows(n) \o RunLongRows(m) : n \in 0..MaxRunPages, m \in 0..2 }

\* What one run returns.
RunOnce(op, rows, min_cluster_size, order, seed) ==
    IF op = "cluster_keywords"
    THEN cluster_keywords(PoorRanking(rows, 2000, 50), order)
    ELSE get_content_gaps(rows, 2000, 50, min_cluster_size, 50, order, seed)

InitRuns ==
    /\ data \in RunLists
    /\ args = [ op |-> "none" ]
    /\ pc = "ready"
    /\ result = <<>>

\* The first run.
FirstRun ==
    /\ pc = "ready"
    /\ \E op \in { "get_content_gaps", "cluster_keywords" },
          min_cluster_size \in { 1, 2 },
          order \in IterationOrders(PoorRanking(data, 2000, 50)),
          seed \in HashSeeds :
        /\ args' = [ op |-> op, min_cluster_size |-> min_cluster_size ]
        /\ result' = <<RunOnce(op, data, min_cluster_size, order, seed)>>
    /\ pc' = "ran"
    /\ UNCHANGED data

\* The second run, on the same row list and with the same thresholds.
SecondRun ==
    /\ pc = "ran"
    /\ \E order \in IterationOrders(PoorRanking(data, 2000, 50)),
          seed \in HashSeeds :
        result' = Append(result, RunOnce(args.op, data, args.min_cluster_size,
                                         order, seed))
    /\ pc' = "done"
    /\ UNCHANGED <<data, args>>

NextRuns == FirstRun \/ SecondRun

SpecRuns == InitRuns /\ [][NextRuns]_vars

(***************************************************************************)
(* C23: two runs of get_content_gaps (and of cluster_keywords) on the same *)
(* row list and thresholds return identical results, including the         *)
(* cluster names chosen for queries of more than 3 significant words and   *)
(* the members and order of current_pages of a cluster of more than 5      *)
(* distinct pages.                                                         *)
(***************************************************************************)
C23_SameResult ==
    pc = "done" => result[1] = result[2]

\* The two runs agree in everything but the cluster names and
\* current_pages.
C23_SameButNamesAndPages ==
    (pc = "done" /\ args.op = "get_content_gaps") =>
        /\ Len(result[1]) = Len(result[2])
        /\ \A i \in DOMAIN result[1] :
              \A f \in { "queries", "query_count", "total_impressions", "total_clicks",
                         "best_position", "opportunity_type", "priority" } :
                  result[1][i][f] = result[2][i][f]
        /\ \A i \in DOMAIN result[1] :
              LET first == result[1][i].current_pages
                  second == result[2][i].current_pages
              IN  /\ Len(first) = Len(second)
                  /\ Len(first) < 5 =>
                       { first[k] : k \in DOMAIN first } = { second[k] : k \in DOMAIN second }

\* Two runs of get_content_gaps whose current_pages have different members.
C23_PagesDiffer ==
    /\ pc = "done"
    /\ args.op = "get_content_gaps"
    /\ Len(result[1]) >= 1
    /\ Len(result[2]) >= 1
    /\ result[1][1].cluster_name = result[2][1].cluster_name
    /\ Len(result[1][1].current_pages) = 5
    /\ Len(result[2][1].current_pages) = 5
    /\ { result[1][1].current_pages[k] : k \in 1..5 }
         # { result[2][1].current_pages[k] : k \in 1..5 }


(***************************************************************************)
(* C24: every row get_ctr_opportunities selects is underperforming its     *)
(* expected click-through rate: for any thresholds and any row passing the *)
(* filter, avg_ctr < expected_ctr(avg_position), that is, the record's     *)
(* ctr_gap is strictly positive.                                           *)
(***************************************************************************)
C24_Underperforming ==
    (pc = "done" /\ args.op = "get_ctr_opportunities") =>
        \A j \in 1..Len(result) :
            LET row == data[CtrOppSource(result[j])]
            IN  /\ 100 * row.avg_ctr[1] < get_expected_ctr(row.avg_position) * row.avg_ctr[2]
                /\ result[j].ctr_gap > 0

\* Under the default thresholds (position <= 3, CTR < 0.20, impressions >=
\* 50) a row at position 3 with a CTR of 0.19 is returned: its expected CTR
\* is 0.18 and its ctr_gap is -1.0.
C24_Overperformer ==
    /\ pc = "done"
    /\ args.op = "get_ctr_opportunities"
    /\ args.max_position = 300 /\ args.max_ctr = 20 /\ args.min_impressions = 50
    /\ \E j \in 1..Len(result) :
          /\ result[j].position = 300
          /\ result[j].ctr = 1900
          /\ result[j].expected_ctr = 1800
          /\ result[j].ctr_gap = -100
          /\ result[j].priority = "low"
          /\ result[j].click_uplift = 0

\* A returned record has a ctr_gap <= 0 exactly when its row's CTR is not
\* below the expected one, and is then labelled low.
C24_GapSign ==
    (pc = "done" /\ args.op = "get_ctr_opportunities") =>
        \A j \in 1..Len(result) :
            LET row == data[CtrOppSource(result[j])]
                below == 100 * row.avg_ctr[1]
                           < get_expected_ctr(row.avg_position) * row.avg_ctr[2]
            IN  /\ ~below => (result[j].ctr_gap <= 0 /\ result[j].priority = "low")
                /\ below => result[j].ctr_gap >= 0


-----------------------------------------------------------------------------
(* get_pages_to_expand on pages of many keywords                           *)

\* Longest row list of a page with many keywords.
MaxTopRows == 15

\* The k-th stored group: three of four on the page /x, the others on /y.
\* The impressions either fall with k, as ORDER BY total_impressions DESC
\* returns them, or do not, as a stubbed data store can return them.
TopRow(k, ordered) ==
    AggregatedRow("q" \o ToString(k),
                  IF k % 4 = 0 THEN "/y" ELSE "/x",
                  (3 * k) % 7,
                  IF ordered THEN 1000 - 50 * (k \div 2) ELSE 100 + ((37 * k) % 101),
                  <<100, 150, 425, 1200, 3025>>[(k % 5) + 1])

TopData ==
    { [ k \in 1..n |-> TopRow(k, ordered) ] : n \in 0..MaxTopRows, ordered \in BOOLEAN }

InitTop ==
    /\ data \in TopData
    /\ args = [ op |-> "none" ]
    /\ pc = "ready"
    /\ result = <<>>

CallTop ==
    /\ pc = "ready"
    /\ \E min_keywords \in {1, 2, 5}, limit \in {1, 100} :
        /\ args' = [ op           |-> "get_pages_to_expand",
                     min_keywords |-> min_keywords,
                     limit        |-> limit ]
        /\ result' = get_pages_to_expand(data, min_keywords, limit)
    /\ pc' = "done"
    /\ UNCHANGED data

NextTop == CallTop

SpecTop == InitTop /\ [][NextTop]_vars

\* Formula helpers: the rows of a page, and what the claim says of
\* total_clicks, total_impressions and top_keywords of its record.
RowsOfPage(page) == { i \in DOMAIN data : data[i].page = page }

SumsAndTopKeywords(record) ==
    LET mine == RowsOfPage(record.page)
        top == record.top_keywords
        Detail(i) == [ query       |-> data[i].query,
                       impressions |-> data[i].total_impressions,
                       clicks      |-> data[i].total_clicks,
                       position    |-> Round1(data[i].avg_position) ]
        included == { i \in mine : \E k \in DOMAIN top : top[k] = Detail(i) }
    IN  /\ record.total_clicks
             = Sum([ k \in 1..Len(data) |->
                       IF k \in mine THEN data[k].total_clicks ELSE 0 ])
        /\ record.total_impressions
             = Sum([ k \in 1..Len(data) |->
                       IF k \in mine THEN data[k].total_impressions ELSE 0 ])
        /\ Len(top) = Min(10, Cardinality(mine))
        /\ \A k \in DOMAIN top : \E i \in mine : top[k] = Detail(i)
        /\ Cardinality(included) = Len(top)
        /\ \A k, l \in DOMAIN top : k < l => top[k].impressions >= top[l].impressions
        /\ \A i \in mine \ included :
              \A k \in DOMAIN top : top[k].impressions >= data[i].total_impressions

\* Formula helper: the sum of the positions of the rows of a page.
PositionSum(page) ==
    Sum([ k \in 1..Len(data) |-> IF k \in RowsOfPage(page) THEN data[k].avg_position ELSE 0 ])

\* C25 (as stated): for every page get_pages_to_expand reports,
\* avg_position is the unweighted arithmetic mean of the avg_position of
\* the page's rows, total_clicks and total_impressions are the sums over
\* those rows, and top_keywords is at most 10 of the page's per-row details
\* in non-increasing impressions order.
C25_AsStated ==
    pc = "done" =>
        \A j \in DOMAIN result :
            /\ result[j].avg_position * Cardinality(RowsOfPage(result[j].page))
                 = PositionSum(result[j].page)
            /\ SumsAndTopKeywords(result[j])

(***************************************************************************)
(* C25 (amended): for every page get_pages_to_expand reports, avg_position *)
(* is the unweighted arithmetic mean of the avg_position of the page's     *)
(* rows (each row once, whatever its impressions) rounded to 1 decimal,    *)
(* total_clicks and total_impressions are the sums over those rows, and    *)
(* top_keywords is the min(10, number of rows) per-row details of highest  *)
(* impressions, in non-increasing impressions order.                       *)
(***************************************************************************)
C25_PageAggregates ==
    pc = "done" =>
        \A j \in DOMAIN result :
            LET n == Cardinality(RowsOfPage(result[j].page))
                distance == result[j].avg_position * n - PositionSum(result[j].page)
            IN  /\ result[j].avg_position % 10 = 0
                /\ distance <= 5 * n
                /\ -distance <= 5 * n
                /\ SumsAndTopKeywords(result[j])

\* A page of more than 10 rows whose impressions are not in order is
\* reported with 10 top_keywords, and its mean position does not fall on a
\* tenth.
C25_Witness ==
    /\ pc = "done"
    /\ \E j \in DOMAIN result :
          /\ Cardinality(RowsOfPage(result[j].page)) > 10
          /\ Len(result[j].top_keywords) = 10
          /\ result[j].avg_position * Cardinality(RowsOfPage(result[j].page))
               # PositionSum(result[j].page)
          /\ \E i, k \in RowsOfPage(result[j].page) :
                i < k /\ data[i].total_impressions < data[k].total_impressions


\* Formula helpers: the input records cluster_keywords put under a name, and
\* the sum of one of their fields.
MembersOf(name) ==
    { i \in 1..Len(data) :
        ClusterName(data[i].query, IterationOrder(data[i].query, args.order)) = name }

MemberSum(name, field) ==
    Sum([ i \in 1..Len(data) |-> IF i \in MembersOf(name) THEN data[i][field] ELSE 0 ])

\* Formula helper: total_impressions, total_clicks and pages of a cluster
\* are those of its members, which its queries list holds one by one.
TotalsAndPages(cluster) ==
    LET members == MembersOf(cluster.name)
    IN  /\ members # {}
        /\ Len(cluster.queries) = Cardinality(members)
        /\ cluster.total_impressions = MemberSum(cluster.name, "impressions")
        /\ cluster.total_clicks = MemberSum(cluster.name, "clicks")
        /\ cluster.total_impressions
             = Sum([ k \in DOMAIN cluster.queries |-> cluster.queries[k].impressions ])
        /\ cluster.total_clicks
             = Sum([ k \in DOMAIN cluster.queries |-> cluster.queries[k].clicks ])
        /\ cluster.pages = { data[i].page : i \in members } \ {""}

(***************************************************************************)
(* C26: for every cluster cluster_keywords returns, total_impressions and  *)
(* total_clicks are the sums over its member records, best_position is the *)
(* lowest position among its members (for any member positions, also ones *)
(* all greater than 100), and pages is exactly the set of the distinct     *)
(* non-empty pages of its members.                                         *)
(***************************************************************************)
C26_ClusterAggregates ==
    (pc = "done" /\ args.op = "cluster_keywords") =>
        \A c \in DOMAIN result :
            /\ TotalsAndPages(result[c])
            /\ \E i \in MembersOf(result[c].name) :
                  result[c].best_position = data[i].position
            /\ \A i \in MembersOf(result[c].name) :
                  result[c].best_position <= data[i].position

\* The totals and pages are as the claim says, and best_position is the
\* lowest position among the members or 100, whichever is lower.
C26_BestPositionCapped ==
    (pc = "done" /\ args.op = "cluster_keywords") =>
        \A c \in DOMAIN result :
            /\ TotalsAndPages(result[c])
            /\ result[c].best_position <= BestPositionInit
            /\ \A i \in MembersOf(result[c].name) :
                  result[c].best_position <= data[i].position
            /\ \/ result[c].best_position = BestPositionInit
               \/ \E i \in MembersOf(result[c].name) :
                     result[c].best_position = data[i].position

\* A cluster of two members, both at position 150, with best_position 100.
C26_AllBeyond100 ==
    /\ pc = "done"
    /\ args.op = "cluster_keywords"
    /\ \E c \in DOMAIN result :
          /\ Len(result[c].queries) = 2
          /\ \A k \in DOMAIN result[c].queries : result[c].queries[k].position = 15000
          /\ result[c].best_position = 10000


-----------------------------------------------------------------------------
(* get_declining_keywords on one group                                     *)

\* Longest row list of a window here.
MaxPairRows == 1

\* The groups of the rows, in the order of the rows.
PairKeys == <<"/x", "/y", "/z", "/w">>

\* The rows of page k in a window, for its clicks and positions.
PairRows(k, clicks, positions) ==
    { AggregatedRow("a", PairKeys[k], c, 1000, p) : c \in clicks, p \in positions }

\* Row lists of one window: the k-th row is of the k-th group (GROUP BY
\* query, page).
PairData(clicks, positions) ==
    { s \in UNION { [ 1..n -> PairRows(1, clicks, positions)
                               \cup PairRows(2, clicks, positions) ] :
                       n \in 0..MaxPairRows } :
        \A i \in DOMAIN s : s[i].page = PairKeys[IF i = 1 THEN 1 ELSE 2] }

InitPair ==
    /\ data \in [ recent : PairData({0, 35, 40, 70, 501}, {425, 426}),
                  previous : PairData({0, 49, 60, 1001}, {300, 304}) ]
    /\ args = [ op |-> "none" ]
    /\ pc = "ready"
    /\ result = <<>>

SpecPair == InitPair /\ [][NextDeclining]_vars

\* Formula helpers: the rows of the two windows a record was made from.
RecentOf(record) ==
    data.recent[CHOOSE i \in DOMAIN data.recent :
                    /\ data.recent[i].query = record.query
                    /\ data.recent[i].page = record.page]

PreviousOf(record) ==
    data.previous[CHOOSE i \in DOMAIN data.previous :
                      /\ data.previous[i].query = record.query
                      /\ data.previous[i].page = record.page]

\* Formula helper: x, in hundredths, is n / d rounded to 1 decimal.
IsRounded1(x, n, d) ==
    /\ x % 10 = 0
    /\ x * d - 100 * n <= 5 * d
    /\ 100 * n - x * d <= 5 * d

\* C27 (as stated): every record of get_declining_keywords has decline =
\* previous_clicks - current_clicks, decline_percent = decline /
\* previous_clicks * 100 rounded to 1 decimal, position_change =
\* current_position - previous_position, and priority 'high' exactly when
\* the record's decline_percent >= 50, 'medium' otherwise.
C27_AsStated ==
    pc = "done" =>
        \A j \in DOMAIN result :
            LET r == result[j]
            IN  /\ r.decline = r.previous_clicks - r.current_clicks
                /\ r.previous_clicks # 0
                /\ IsRounded1(r.decline_percent, 100 * r.decline, r.previous_clicks)
                /\ r.position_change = r.current_position - r.previous_position
                /\ r.priority \in { "high", "medium" }
                /\ r.priority = "high" <=> r.decline_percent >= 5000

(***************************************************************************)
(* C27 (amended): every record of get_declining_keywords has decline =     *)
(* previous_clicks - current_clicks; decline_percent is decline /          *)
(* previous_clicks * 100 rounded to 1 decimal, and 0 when previous_clicks  *)
(* is 0; position_change is the difference of the two rows' unrounded      *)
(* avg_position, current minus previous, rounded to 1 decimal (within 0.1  *)
(* of current_position - previous_position); priority is 'high' exactly    *)
(* when the unrounded percentage is >= 50, 'medium' otherwise.             *)
(***************************************************************************)
C27_RecordValues ==
    pc = "done" =>
        \A j \in DOMAIN result :
            LET r == result[j]
                row == RecentOf(r)
                prev == PreviousOf(r)
                fields == r.current_position - r.previous_position
            IN  /\ r.previous_clicks = prev.total_clicks
                /\ r.current_clicks = row.total_clicks
                /\ r.decline = r.previous_clicks - r.current_clicks
                /\ IF r.previous_clicks = 0
                   THEN r.decline_percent = 0
                   ELSE IsRounded1(r.decline_percent, 100 * r.decline, r.previous_clicks)
                /\ IsRounded1(r.position_change,
                              row.avg_position - prev.avg_position, 100)
                /\ r.position_change - fields <= 10
                /\ fields - r.position_change <= 10
                /\ r.priority \in { "high", "medium" }
                /\ r.priority = "high" <=>
                       (r.previous_clicks > 0 /\ 100 * r.decline >= 50 * r.previous_clicks)

\* A record for 1001 -> 501 clicks and positions 3.04 -> 4.26: the
\* percentage 49.95... is reported as 50.0 with priority medium, and
\* position_change is 1.2 beside the positions 3.0 and 4.3.
C27_Witness ==
    /\ pc = "done"
    /\ Len(result) = 1
    /\ result[1].decline = 500
    /\ result[1].decline_percent = 5000
    /\ result[1].priority = "medium"
    /\ result[1].previous_position = 300
    /\ result[1].current_position = 430
    /\ result[1].position_change = 120

\* A record whose previous_clicks is 0, with decline_percent 0.
C27_ZeroPrevious ==
    /\ pc = "done"
    /\ Len(result) = 1
    /\ result[1].previous_clicks = 0
    /\ result[1].decline_percent = 0


-----------------------------------------------------------------------------
(* The search_data table under api_sync while an analysis runs             *)

\* Largest number of syncs in a behaviour.
MaxSyncs == 2

\* datetime.now() of the requests: the day does not change while they run.
SyncNow == [ day |-> FirstNowDay, second |-> 0 ]

\* The dates search_data has rows for: now - 3 and now - 10 lie in the
\* requested range and in the recent window, now - 100 in the previous one.
SyncDates ==
    << Strftime(MinusDays(SyncNow, 3)), Strftime(MinusDays(SyncNow, 10)),
       Strftime(MinusDays(SyncNow, 100)) >>

\* The (query, page) pairs of search_data.
SyncKeys == << << <<"red", "shoes">>, "/x" >>, << <<"shoes", "red">>, "/y" >> >>

\* The positions a sync reports.
SyncPositions == { 200, 600 }

\* One row as the Search Console API reports it for a date and a pair.
GscRow(date, k, position) ==
    LET clicks == IF date = SyncDates[3] THEN 60 ELSE 5
        impressions == IF k = 1 THEN 100 ELSE 60
    IN  [ date        |-> date,
          query       |-> SyncKeys[k][1],
          page        |-> SyncKeys[k][2],
          clicks      |-> clicks,
          impressions |-> impressions,
          ctr         |-> <<clicks, impressions>>,
          position    |-> position ]

\* UNIQUE(site_url, date, query, page)
SameKey(r, s) == r.date = s.date /\ r.query = s.query /\ r.page = s.page

\* INSERT ... ON CONFLICT (site_url, date, query, page) DO UPDATE SET ...
Upsert(table, row) == { r \in table : ~SameKey(r, row) } \cup { row }

\* db.save_search_data: every row of the list is upserted, in one
\* transaction.
save_search_data(table, rows) ==
    LET saved[i \in 0..Len(rows)] ==
            IF i = 0 THEN table ELSE Upsert(saved[i - 1], rows[i])
    IN  saved[Len(rows)]

\* SUM(column) over rows
RECURSIVE SumColumn(_, _)
SumColumn(rows, column) ==
    IF rows = {} THEN 0
    ELSE LET r == CHOOSE x \in rows : TRUE
         IN  r[column] + SumColumn(rows \ {r}, column)

\* SUM(position * impressions) over rows
RECURSIVE SumWeightedPosition(_)
SumWeightedPosition(rows) ==
    IF rows = {} THEN 0
    ELSE LET r == CHOOSE x \in rows : TRUE
         IN  r.position * r.impressions + SumWeightedPosition(rows \ {r})

\* One group of SELECT ... GROUP BY query, page.  The rows of a pair have
\* the same impressions and there are at most two of them in a range, so
\* the weighted mean is a whole number of hundredths.
GroupRow(rows) ==
    LET r == CHOOSE x \in rows : TRUE
        impressions == SumColumn(rows, "impressions")
    IN  AggregatedRow(r.query, r.page, SumColumn(rows, "clicks"), impressions,
                      IF impressions > 0
                      THEN SumWeightedPosition(rows) \div impressions ELSE 0)

\* db.get_aggregated_data(site_url, start_date, end_date): WHERE date >=
\* start_date AND date <= end_date, GROUP BY query, page, ORDER BY
\* total_impressions DESC.  Two groups never have equal totals here.
get_aggregated_data(table, start_date, end_date) ==
    LET selected == { r \in table : /\ TextLessEq(start_date, r.date)
                                    /\ TextLessEq(r.date, end_date) }
        Of(k) == { r \in selected : /\ r.query = SyncKeys[k][1]
                                    /\ r.page = SyncKeys[k][2] }
        present == SelectSeq([ k \in DOMAIN SyncKeys |-> Of(k) ],
                             LAMBDA rows : rows # {})
        groups == [ i \in DOMAIN present |-> GroupRow(present[i]) ]
    IN  SortDescBy(groups, [ i \in DOMAIN groups |-> groups[i].total_impressions ])

\* <<start_date, end_date>> of an invocation: the range of the request
\* (days = 90) for the four detectors given one, and the windows of
\* get_declining_keywords (comparison_months = 3).
RangeOf(label) ==
    LET recent_end == RecentEnd(SyncNow)
        recent_start == RecentStart(SyncNow)
        previous_end == PreviousEnd(recent_start, 3)
    IN  CASE label = "recent"   -> << Strftime(recent_start), Strftime(recent_end) >>
          [] label = "previous" -> << Strftime(PreviousStart(previous_end)),
                                      Strftime(previous_end) >>
          [] OTHER              -> << Strftime(MinusDays(SyncNow, 93)),
                                      Strftime(MinusDays(SyncNow, 3)) >>

\* The date range of api_sync: the last 90 days, or 16 * 30 days.
SyncRange(sync_type) ==
    << Strftime(MinusDays(SyncNow, IF sync_type = "full" THEN 16 * 30 ELSE 93)),
       Strftime(MinusDays(SyncNow, 3)) >>

\* What client.fetch_all_data returns for the range, as far as it differs
\* from the table: nothing, or one row with a date in the range.
GscData(sync_type) ==
    LET range == SyncRange(sync_type)
        dates == { SyncDates[i] : i \in DOMAIN SyncDates }
    IN  { <<>> } \cup { << GscRow(date, k, position) >> :
                          date \in DatesInRange(dates, range[1], range[2]),
                          k \in DOMAIN SyncKeys, position \in SyncPositions }

\* search_data with both pairs on the three dates: at position 25.0 in
\* the requested range and at 3.0 in the previous window.
FullTable ==
    { GscRow(SyncDates[d], k, IF d = 3 THEN 300 ELSE 2500) :
        d \in DOMAIN SyncDates, k \in DOMAIN SyncKeys }

InitSync ==
    /\ data \in { [ search_data |-> table ] : table \in { {}, FullTable } }
    /\ args = [ op |-> "none", step |-> 0, calls |-> 0, db_error |-> "none",
                log |-> <<>>, syncs |-> 0, during |-> 0 ]
    /\ pc = "ready"
    /\ result = <<>>

\* get_opportunity_summary or generate_action_list is called.
CallOrchestrator ==
    /\ pc = "ready"
    /\ \E op \in { "get_opportunity_summary", "generate_action_list" } :
        args' = [ args EXCEPT !.op = op, !.step = 1 ]
    /\ pc' = "running"
    /\ result' = <<>>
    /\ UNCHANGED data

\* The call makes its next invocation of db.get_aggregated_data, on the
\* table as it is now, and runs on to the following invocation, to its
\* last statement or to the exception.
FetchStored ==
    /\ pc = "running"
    /\ args.step <= Len(FetchPlan(args.op))
    /\ LET label == FetchPlan(args.op)[args.step]
           range == RangeOf(label)
           stored == get_aggregated_data(data.search_data, range[1], range[2])
       IN  \E outcome \in DbOutcomes(stored) :
           \E order \in IterationOrders(PoorRanking(outcome.rows, 2000, 50)),
              seed \in HashSeeds :
               /\ args' = [ args EXCEPT !.step = @ + 1, !.calls = @ + 1,
                                        !.log = Append(@, label),
                                        !.db_error = IF outcome.ok THEN @
                                                     ELSE outcome.error ]
               /\ IF Raises(outcome)
                  THEN /\ pc' = "raised"
                       /\ result' = [ error |-> outcome.error ]
                  ELSE /\ pc' = "running"
                       /\ result' = AfterFetch(args.op, label, result,
                                               outcome.rows, order, seed)
    /\ UNCHANGED data

\* api_sync in another request: the rows fetched from the API are saved
\* and committed, before the call or between two of its invocations.
ApiSync ==
    /\ pc \in { "ready", "running" }
    /\ args.syncs < MaxSyncs
    /\ \E sync_type \in { "recent", "full" } :
       \E fetched \in GscData(sync_type) :
           data' = [ data EXCEPT !.search_data = save_search_data(@, fetched) ]
    /\ args' = [ args EXCEPT !.syncs = @ + 1,
                             !.during = IF pc = "running" THEN @ + 1 ELSE @ ]
    /\ UNCHANGED <<pc, result>>

NextSync == CallOrchestrator \/ FetchStored \/ ApiSync \/ Return

SpecSync == InitSync /\ [][NextSync]_vars


\* Formula helper: the list the detector of an invocation builds from the
\* rows the invocation returned, with the limit the caller passes (10 in
\* get_opportunity_summary; 10, 5 and 5 in generate_action_list).
OwnList(op, label, held, rows, new) ==
    LET limit == IF op = "get_opportunity_summary" \/ label = "quick_wins"
                 THEN 10 ELSE 5
    IN  CASE label = "quick_wins"   -> new = get_quick_wins(rows, 400, 2000, 100, limit)
          [] label = "ctr_opps"     -> new = get_ctr_opportunities(rows, 300, 20, 50, limit)
          [] label = "pages_expand" -> new = get_pages_to_expand(rows, 5, limit)
          [] label = "content_gaps" ->
                \E order \in IterationOrders(PoorRanking(rows, 2000, 50)),
                   seed \in HashSeeds :
                    new = get_content_gaps(rows, 2000, 50, 2, limit, order, seed)
          [] label = "recent"       -> new = rows
          [] label = "previous"     ->
                new = get_declining_keywords(held, rows, 50, 3000, limit)

(***************************************************************************)
(* C28: a get_opportunity_summary call that returns has invoked            *)
(* get_aggregated_data exactly six times, for quick wins, CTR              *)
(* opportunities, pages to expand, content gaps, the recent window and the *)
(* previous window of the declining keywords, in that order; a             *)
(* generate_action_list call that returns exactly three times, for quick   *)
(* wins, CTR opportunities and content gaps.  Every invocation reads the   *)
(* table as it is at that moment, and its detector builds its list from    *)
(* the rows of that invocation alone (get_declining_keywords from its own  *)
(* two), leaving the lists built before untouched.                         *)
(***************************************************************************)
C28_NoCaching ==
    [][ /\ (pc = "running" /\ pc' = "done" /\ args.op = "get_opportunity_summary") =>
              /\ args.calls = 6
              /\ args.log = <<"quick_wins", "ctr_opps", "pages_expand",
                              "content_gaps", "recent", "previous">>
        /\ (pc = "running" /\ pc' = "done" /\ args.op = "generate_action_list") =>
              /\ args.calls = 3
              /\ args.log = <<"quick_wins", "ctr_opps", "content_gaps">>
        /\ (pc' = "running" /\ args'.calls = args.calls + 1) =>
              \E label \in { args'.log[Len(args'.log)] } :
              \E range \in { RangeOf(label) } :
              \E rows \in { get_aggregated_data(data.search_data, range[1], range[2]) } :
              \E kept \in { IF label = "previous" THEN Len(result) - 1 ELSE Len(result) } :
                  /\ Len(args'.log) = args'.calls
                  /\ Len(result') = kept + 1
                  /\ SubSeq(result', 1, kept) = SubSeq(result, 1, kept)
                  /\ OwnList(args.op, label,
                             IF label = "previous" THEN result[Len(result)] ELSE <<>>,
                             rows, result'[kept + 1]) ]_vars

\* get_opportunity_summary returns after a sync came between its first two
\* invocations: the pair that was a quick win at position 6.0 is also a
\* CTR opportunity at position 2.0.
C28_Witness ==
    /\ pc = "done"
    /\ args.op = "get_opportunity_summary"
    /\ args.calls = 6
    /\ args.during > 0
    /\ result.quick_wins.count = 1
    /\ result.ctr_opportunities.count = 1
    /\ result.quick_wins.top_items[1].query = result.ctr_opportunities.top_items[1].query
    /\ result.quick_wins.top_items[1].page = result.ctr_opportunities.top_items[1].page
    /\ result.quick_wins.top_items[1].position = 600
    /\ result.ctr_opportunities.top_items[1].position = 200

\* C30 (as stated): in the list generate_action_list returns, no (query,
\* page) pair is both a 'Quick Win' entry and a 'CTR Optimization' entry,
\* syncs between the invocations of the call included.
C30_NoPairTwice ==
    (pc = "done" /\ args.op = "generate_action_list") =>
        \A i, j \in DOMAIN result :
            (result[i].type = "Quick Win" /\ result[j].type = "CTR Optimization") =>
                ~(result[i].query = result[j].query /\ result[i].page = result[j].page)

\* The same holds of every call during which no sync was committed.
C30_NoPairTwiceUnsynced ==
    (pc = "done" /\ args.op = "generate_action_list" /\ args.during = 0) =>
        \A i, j \in DOMAIN result :
            (result[i].type = "Quick Win" /\ result[j].type = "CTR Optimization") =>
                ~(result[i].query = result[j].query /\ result[i].page = result[j].page)

\* A list with a quick win and a CTR optimization, of different pairs,
\* returned by a call during which no sync was committed.
C30_UnsyncedBoth ==
    /\ pc = "done"
    /\ args.op = "generate_action_list"
    /\ args.during = 0
    /\ \E i, j \in DOMAIN result :
          result[i].type = "Quick Win" /\ result[j].type = "CTR Optimization"


-----------------------------------------------------------------------------
(* cluster_keywords as a partition of its input                            *)

\* Formula helper: the entry a queries list holds for keyword record i.
EntryOf(i) ==
    [ query       |-> data[i].query,
      impressions |-> data[i].impressions,
      clicks      |-> data[i].clicks,
      position    |-> data[i].position ]

\* Formula helper: the places <<cluster, index>> of the queries lists.
Places ==
    UNION { { <<c, k>> : k \in DOMAIN result[c].queries } : c \in DOMAIN result }

(***************************************************************************)
(* C29: cluster_keywords partitions its input.  The entries of the queries *)
(* lists are those of the input records, each as many times as the input   *)
(* holds it, and all occurrences of one record's entry are in one cluster; *)
(* no cluster is empty or named twice; the lengths of the queries lists    *)
(* sum to the number of input records, and total_impressions and           *)
(* total_clicks of the clusters sum to the totals of the input.            *)
(***************************************************************************)
C29_Partition ==
    pc = "done" =>
        /\ \A i \in DOMAIN data :
              /\ Cardinality({ p \in Places : result[p[1]].queries[p[2]] = EntryOf(i) })
                   = Cardinality({ j \in DOMAIN data : EntryOf(j) = EntryOf(i) })
              /\ Cardinality({ p[1] : p \in { q \in Places :
                                   result[q[1]].queries[q[2]] = EntryOf(i) } }) = 1
        /\ \A p \in Places : \E i \in DOMAIN data : result[p[1]].queries[p[2]] = EntryOf(i)
        /\ \A c \in DOMAIN result : Len(result[c].queries) >= 1
        /\ \A c, d \in DOMAIN result : result[c].name = result[d].name => c = d
        /\ Sum([ c \in DOMAIN result |-> Len(result[c].queries) ]) = Len(data)
        /\ Sum([ c \in DOMAIN result |-> result[c].total_impressions ])
             = Sum([ i \in DOMAIN data |-> data[i].impressions ])
        /\ Sum([ c \in DOMAIN result |-> result[c].total_clicks ])
             = Sum([ i \in DOMAIN data |-> data[i].clicks ])

\* Two records of one query with equal metrics, one of them without a
\* page: one cluster whose queries list holds the same entry twice.
C29_Witness ==
    /\ pc = "done"
    /\ args.op = "cluster_keywords"
    /\ Len(data) = 2
    /\ EntryOf(1) = EntryOf(2)
    /\ Len(result) = 1
    /\ Len(result[1].queries) = 2
    /\ result[1].total_impressions = 120

\* Two records in two clusters.
C29_TwoClusters ==
    /\ pc = "done"
    /\ args.op = "cluster_keywords"
    /\ Len(data) = 2
    /\ Len(result) = 2
    /\ Len(result[1].queries) = 1
    /\ Len(result[2].queries) = 1

=============================================================================
